---- MODULE Spec2Model ----
(***************************************************************************)
(* A model of the request-dispatch core of snarl: the per-method route     *)
(* trie (src/src/router.ts), the middleware composer, the rate limiter and *)
(* the static file middleware (src/src/middleware.ts).                     *)
(*                                                                         *)
(* Strings are sequences of one-character strings, so that the code's      *)
(* string operations (split, slice, startsWith, replace, decode) are       *)
(* computed and not assumed.                                               *)
(***************************************************************************)
EXTENDS Integers, Sequences, FiniteSets, TLC

VARIABLES
    tries,      \* router.ts: tries[method], a trie as a sequence of nodes, [1] the root
    routes,     \* router.ts: routes[method], the registered routes in order
    lastPath,   \* the pathname of the last matchRoute call (NoPath before)
    result,     \* the MatchResult of the last matchRoute call (NoMatch = null)
    middlewares,\* router.ts: the router's middleware list, filled by use()
    config,     \* router.ts: the router's config (onError, onNotFound)
    pc,         \* fetch: "setup" before the request, "run" in the chain, "done";
                \* compose called on its own: "compose" in the chain, "composed"
    request,    \* fetch: the request being served (method, pathname)
    ctx,        \* fetch: the Context of the request (params, outgoing headers)
    idx,        \* compose: the index i shared by the dispatch closure
    stack,      \* the middleware invocations suspended in a call of next()
    mode,       \* "call": dispatch() is being called, "ret": a value comes back
    val,        \* the value dispatch resolves to, or the value thrown
    trace,      \* history: middleware entries, next() calls, handler runs
    thrown,     \* history: the value thrown during the request (NoVal if none)
    errCalls,   \* history: the arguments of the calls of config.onError
    reply,      \* what fetch resolves to (Rejected if it rejects)
    limiter,    \* rateLimit: the options (windowMs, max, handler) and the timer
    requests,   \* rateLimit: the Map from key to { count, reset }
    now,        \* Date.now()
    inflight,   \* the admitted requests whose next() has not settled yet
    window,     \* history: per key, the window opened by a request
    lastOut,    \* history: what the limiter did with the last request
    limiter2,   \* rateLimit: a second instance (options, timer, its own Map, its requests)
    options,    \* staticFiles: the options (index, etag, maxAge, immutable)
    srequest,   \* staticFiles: the request (method, raw path, headers)
    served,     \* staticFiles: what the middleware did with the request
    sreply,     \* what fetch returns for the request, staticFiles being the only middleware
    previous,   \* history: what the middleware did with the earlier requests
    frames,     \* group: the sub-routers being configured, the innermost last
    ghist,      \* history: per group, its prefix, the groups around it, its middleware
    gtrace,     \* history: the middleware and the handler the last request ran, in order
    registered, \* history: the routes registered by on() and all(), in order of the calls
    requestId,  \* router.ts: the counter behind nextRequestId()
    inbound,    \* fetch: the X-Request-ID header of the request (NoHeader if none)
    issued,     \* history: per request served, its X-Request-ID and ctx.requestId
    parked,     \* fetch: the requests in flight that are suspended at an await
    cookies,    \* CookieJar: the cookies by name
    setCookieHeaders, \* CookieJar: the outgoing Set-Cookie header strings
    jarCalls    \* history: the set and delete calls on the jar, with their header

trieVars == <<tries, routes, lastPath, result>>

fetchVars == <<middlewares, config, pc, request, ctx, idx, stack, mode, val,
               trace, thrown, errCalls, reply>>

limitVars == <<limiter, requests, now, inflight, window, lastOut, limiter2>>

\* the state of the built-in middleware, untouched by router operations
staticVars == <<options, srequest, served, sreply, previous>>
groupVars == <<frames, ghist, gtrace, registered>>
jarVars == <<cookies, setCookieHeaders, jarCalls>>
sideVars == <<limitVars, staticVars, groupVars, jarVars>>
idVars == <<requestId, inbound, issued, parked>>

vars == <<trieVars, fetchVars, sideVars, idVars>>

----------------------------------------------------------------------------
(* String helpers: the JavaScript string methods used by the code.         *)

\* s.indexOf(c) !== -1
Contains(s, c) == \E i \in 1..Len(s) : s[i] = c

\* s.startsWith(p)
StartsWith(s, p) == Len(s) >= Len(p) /\ SubSeq(s, 1, Len(p)) = p

\* s.endsWith(c) for a one-character c
EndsWithChar(s, c) == Len(s) >= 1 /\ s[Len(s)] = c

RECURSIVE StripLeading(_)
\* s.replace(/^\/+/, "")
StripLeading(s) ==
    IF Len(s) > 0 /\ s[1] = "/" THEN StripLeading(Tail(s)) ELSE s

RECURSIVE StripTrailing(_)
\* s.replace(/\/+$/, "")
StripTrailing(s) ==
    IF Len(s) > 0 /\ s[Len(s)] = "/"
    THEN StripTrailing(SubSeq(s, 1, Len(s) - 1)) ELSE s

\* s.replace(/^\/+|\/+$/g, "")
StripSlashes(s) == StripTrailing(StripLeading(s))

RECURSIVE SplitFrom(_, _, _)
\* s.split("/"), accumulated from the left: cur is the part being read
SplitFrom(s, cur, acc) ==
    IF s = <<>> THEN Append(acc, cur)
    ELSE IF s[1] = "/" THEN SplitFrom(Tail(s), <<>>, Append(acc, cur))
    ELSE SplitFrom(Tail(s), Append(cur, s[1]), acc)

\* s.split("/"): "" gives [""], "a//b" gives ["a", "", "b"]
Split(s) == SplitFrom(s, <<>>, <<>>)

RECURSIVE Join(_)
\* parts.join("/")
Join(parts) ==
    IF parts = <<>> THEN <<>>
    ELSE IF Len(parts) = 1 THEN parts[1]
    ELSE parts[1] \o <<"/">> \o Join(Tail(parts))

\* the escapes decodeURIComponent resolves in this model: %20 %2F %2E %61
DecodeTable ==
    { <<<<"2", "0">>, " ">>, <<<<"2", "F">>, "/">>,
      <<<<"2", "E">>, ".">>, <<<<"6", "1">>, "a">> }

\* a valid escape sequence starts at position i of s
ValidEscapeAt(s, i) ==
    /\ i + 2 <= Len(s)
    /\ \E e \in DecodeTable : e[1] = SubSeq(s, i + 1, i + 2)

\* decodeURIComponent throws URIError on s
DecodeThrows(s) ==
    \E i \in 1..Len(s) : s[i] = "%" /\ ~ValidEscapeAt(s, i)

RECURSIVE DecodeValid(_)
DecodeValid(s) ==
    IF s = <<>> THEN <<>>
    ELSE IF s[1] = "%"
         THEN LET e == CHOOSE e \in DecodeTable : e[1] = SubSeq(s, 2, 3)
              IN  <<e[2]>> \o DecodeValid(SubSeq(s, 4, Len(s)))
         ELSE <<s[1]>> \o DecodeValid(Tail(s))

\* decodeURIComponent(s) when it does not throw
decodeURIComponent(s) == DecodeValid(s)

----------------------------------------------------------------------------
(* The route trie.                                                         *)

STATIC == 0
PARAM == 1
WILDCARD == 2

\* createTrieRoot(); an undefined paramName is the empty string (both are
\* falsy and are compared only between nodes of the same non-static type),
\* an undefined optional is FALSE, route = 0 is "no handler, no route"
createTrieRoot ==
    [type |-> STATIC, segment |-> <<>>, paramName |-> <<>>,
     optional |-> FALSE, children |-> <<>>, route |-> 0]

\* one element of parsePattern's result
ParsePart(part) ==
    IF part = <<"*">>
    THEN [type |-> WILDCARD, segment |-> <<"*">>, optional |-> FALSE]
    ELSE IF StartsWith(part, <<":">>)
    THEN LET optional == EndsWithChar(part, "?")
         IN  [type |-> PARAM,
              segment |-> IF optional THEN SubSeq(part, 2, Len(part) - 1)
                                      ELSE SubSeq(part, 2, Len(part)),
              optional |-> optional]
    ELSE [type |-> STATIC, segment |-> part, optional |-> FALSE]

RECURSIVE ParseParts(_)
\* the loop of parsePattern: a "*" part ends the loop
ParseParts(parts) ==
    IF parts = <<>> THEN <<>>
    ELSE IF parts[1] = <<"*">> THEN <<ParsePart(parts[1])>>
    ELSE <<ParsePart(parts[1])>> \o ParseParts(Tail(parts))

parsePattern(pattern) ==
    LET path == StripSlashes(pattern)
    IN  IF path = <<>> THEN <<>> ELSE ParseParts(Split(path))

\* children.sort((a, b) => a.type - b.type): a stable sort on three keys
SortByTypeNoSort(ns, children) == children

SortByType(ns, children) ==
    SelectSeq(children, LAMBDA c : ns[c].type = STATIC)
        \o SelectSeq(children, LAMBDA c : ns[c].type = PARAM)
        \o SelectSeq(children, LAMBDA c : ns[c].type = WILDCARD)

\* node.children.find(...) of insertRoute: the first matching child, 0 if none
FindChild(ns, node, seg) ==
    LET ch == ns[node].children
        ok(c) == /\ ns[c].type = seg.type
                 /\ IF seg.type = STATIC THEN ns[c].segment = seg.segment
                                         ELSE ns[c].paramName = seg.segment
        hits == {i \in 1..Len(ch) : ok(ch[i])}
    IN  IF hits = {} THEN 0
        ELSE ch[CHOOSE i \in hits : \A j \in hits : i <= j]

RECURSIVE InsertSegs(_, _, _)
\* the descent of insertRoute; gives the trie and the final node
InsertSegs(ns, node, segs) ==
    IF segs = <<>> THEN [nodes |-> ns, node |-> node]
    ELSE
        LET seg == segs[1]
            found == FindChild(ns, node, seg)
        IN  IF found # 0 THEN InsertSegs(ns, found, Tail(segs))
            ELSE
                LET child == Len(ns) + 1
                    new == [type |-> seg.type,
                            segment |-> IF seg.type = STATIC THEN seg.segment ELSE <<>>,
                            paramName |-> IF seg.type # STATIC THEN seg.segment ELSE <<>>,
                            optional |-> seg.optional,
                            children |-> <<>>, route |-> 0]
                    ns1 == Append(ns, new)
                    ns2 == [ns1 EXCEPT ![node].children =
                                SortByType(ns1, Append(ns1[node].children, child))]
                IN  InsertSegs(ns2, child, Tail(segs))

\* an insertion that forgets the routes registered before
insertRouteAlone(ns, pattern, route) ==
    LET r == InsertSegs(<<createTrieRoot>>, 1, parsePattern(pattern))
    IN  [r.nodes EXCEPT ![r.node].route = route]

\* insertRoute(root, pattern, handler, route); route is the index in routes
insertRoute(ns, pattern, route) ==
    LET r == InsertSegs(ns, 1, parsePattern(pattern))
    IN  [r.nodes EXCEPT ![r.node].route = route]

NoMatch == [found |-> FALSE, route |-> 0, params |-> <<>>]

Found(route, params) == [found |-> TRUE, route |-> route, params |-> params]

\* { ...params, [key]: value }
WithParam(params, key, value) ==
    [k \in (DOMAIN params) \cup {key} |-> IF k = key THEN value ELSE params[k]]

\* a static walk that stops at the first terminal node
matchStaticFirst(ns, node, segments, index) ==
    IF ns[node].route # 0 THEN Found(ns[node].route, <<>>) ELSE NoMatch

RECURSIVE matchStatic(_, _, _, _)
matchStatic(ns, node, segments, index) ==
    IF index > Len(segments)
    THEN IF ns[node].route # 0 THEN Found(ns[node].route, <<>>) ELSE NoMatch
    ELSE
        LET ch == ns[node].children
            hits == {i \in 1..Len(ch) :
                        /\ ns[ch[i]].type = STATIC
                        /\ ns[ch[i]].segment = segments[index]}
        IN  IF hits = {} THEN NoMatch
            ELSE matchStatic(ns, ch[CHOOSE i \in hits : \A j \in hits : i <= j],
                             segments, index + 1)

RECURSIVE search(_, _, _, _, _, _)
RECURSIVE searchChildren(_, _, _, _, _, _, _)
RECURSIVE searchBranch(_, _, _, _, _, _, _)

\* the branch of search's loop for one child c of node; res is the value the
\* branch returns (found = FALSE: the loop goes on, unless stop), dec is
\* requiresDecoding afterwards
searchBranch(ns, segments, node, c, index, params, dec) ==
    LET segment == segments[index] IN
    IF ns[c].type = STATIC
    THEN IF ns[c].segment = segment
         THEN LET r == search(ns, segments, c, index + 1, params, dec)
              IN  [res |-> r.res, dec |-> r.dec, stop |-> FALSE]
         ELSE [res |-> NoMatch, dec |-> dec, stop |-> FALSE]
    ELSE IF ns[c].type = PARAM
    THEN LET dec1 == dec \/ Contains(segment, "%")
             r == search(ns, segments, c, index + 1,
                         WithParam(params, ns[c].paramName, segment), dec1)
         IN  IF r.res.found THEN [res |-> r.res, dec |-> r.dec, stop |-> FALSE]
             ELSE IF ns[c].optional
             THEN LET s == search(ns, segments, node, index + 1, params, r.dec)
                  IN  [res |-> s.res, dec |-> s.dec, stop |-> FALSE]
             ELSE [res |-> NoMatch, dec |-> r.dec, stop |-> FALSE]
    ELSE LET wildcard == Join(SubSeq(segments, index, Len(segments)))
             key == IF ns[c].paramName # <<>> THEN ns[c].paramName ELSE <<"*">>
         IN  [res |-> IF ns[c].route # 0
                      THEN Found(ns[c].route, WithParam(params, key, wildcard))
                      ELSE NoMatch,
              dec |-> dec, stop |-> TRUE]

\* the loop `for (const child of node.children)` of search, from position k
searchChildren(ns, segments, node, index, params, k, dec) ==
    IF k > Len(ns[node].children) THEN [res |-> NoMatch, dec |-> dec]
    ELSE
        LET b == searchBranch(ns, segments, node, ns[node].children[k],
                              index, params, dec)
        IN  IF b.res.found \/ b.stop THEN [res |-> b.res, dec |-> b.dec]
            ELSE searchChildren(ns, segments, node, index, params, k + 1, b.dec)

\* matchRoute.search(node, index, params); dec threads requiresDecoding
search(ns, segments, node, index, params, dec) ==
    IF index > Len(segments)
    THEN IF ns[node].route # 0
         THEN [res |-> Found(ns[node].route, params), dec |-> dec]
         ELSE
            LET ch == ns[node].children
                hits == {i \in 1..Len(ch) :
                            ns[ch[i]].optional /\ ns[ch[i]].route # 0}
            IN  IF hits = {} THEN [res |-> NoMatch, dec |-> dec]
                ELSE [res |-> Found(ns[ch[CHOOSE i \in hits : \A j \in hits : i <= j]].route,
                                    params),
                      dec |-> dec]
    ELSE searchChildren(ns, segments, node, index, params, 1, dec)

\* decodeParams(params): values containing "%" are decoded, a value whose
\* decoding throws is left as it is
decodeParams(params) ==
    [k \in DOMAIN params |->
        IF Contains(params[k], "%") /\ ~DecodeThrows(params[k])
        THEN decodeURIComponent(params[k]) ELSE params[k]]

\* matchRoute(root, pathname)
matchRoute(ns, pathname) ==
    IF pathname = <<"/">> \/ pathname = <<>>
    THEN IF ns[1].route # 0 THEN Found(ns[1].route, <<>>) ELSE NoMatch
    ELSE
        LET segments == Split(StripSlashes(pathname))
            static == matchStatic(ns, 1, segments, 1)
        IN  IF static.found THEN static
            ELSE
                LET r == search(ns, segments, 1, 1, <<>>, FALSE)
                IN  IF r.res.found /\ r.dec
                    THEN Found(r.res.route, decodeParams(r.res.params))
                    ELSE r.res

----------------------------------------------------------------------------
(* The router: registration.                                               *)

httpMethods == <<"GET", "POST", "PUT", "PATCH", "DELETE", "HEAD", "OPTIONS">>

IsHttpMethod(m) == \E i \in 1..Len(httpMethods) : httpMethods[i] = m

MethodSet == {httpMethods[i] : i \in 1..Len(httpMethods)}

NoPath == <<"no path">>

\* createRouter(): one empty trie and one empty route list per method
InitRouter ==
    /\ tries = [m \in MethodSet |-> <<createTrieRoot>>]
    /\ routes = [m \in MethodSet |-> <<>>]

\* router.on(method, path, handler) with a string path and config.prefix = ""
on(method, path, handler) ==
    LET route == [method |-> method, pattern |-> path, handler |-> handler]
        rs == Append(routes[method], route)
    IN  /\ routes' = [routes EXCEPT ![method] = rs]
        /\ tries' = [tries EXCEPT ![method] = insertRoute(@, path, Len(rs))]

----------------------------------------------------------------------------
(* Responses, errors and the Context helpers.                              *)

NoVal == [kind |-> "none"]

\* fetch rejected: the promise returned by fetch rejects
Rejected == [kind |-> "rejected"]

\* an empty Headers object / an absent HeadersInit
NoHeaders == <<>>

\* headers.set(k, v) for every entry of over, on top of base
SetAll(base, over) ==
    [k \in (DOMAIN base) \cup (DOMAIN over) |->
        IF k \in DOMAIN over THEN over[k] ELSE base[k]]

Header(name, value) == [k \in {name} |-> value]

\* new Response(body, { status, headers })
Response(status, body, headers) ==
    [kind |-> "resp", status |-> status, body |-> body, headers |-> headers]

NullBody == [kind |-> "null"]
TextBody(text) == [kind |-> "text", text |-> text]
\* JSON.stringify(data) as a body: the serialized form of data
JsonBody(data) == [kind |-> "json", data |-> data]

\* new HttpError(status, message, headers)
HttpError(status, message, headers) ==
    [kind |-> "http", status |-> status, message |-> message, headers |-> headers]

\* new Error(message): any thrown value that is not an HttpError
PlainError(message) == [kind |-> "error", message |-> message]

BadRequestError == HttpError(400, "Bad Request", NoHeaders)
UnauthorizedError == HttpError(401, "Unauthorized", NoHeaders)
ForbiddenError == HttpError(403, "Forbidden", NoHeaders)
NotFoundError == HttpError(404, "Not Found", NoHeaders)
MethodNotAllowedError == HttpError(405, "Method Not Allowed", NoHeaders)
ConflictError == HttpError(409, "Conflict", NoHeaders)
UnprocessableEntityError == HttpError(422, "Unprocessable Entity", NoHeaders)
InternalServerError == HttpError(500, "Internal Server Error", NoHeaders)

\* new TooManyRequestsError(message, retryAfter); retryAfter is a string of
\* characters, the empty string stands for an absent one (both are falsy)
TooManyRequestsError(message, retryAfter) ==
    HttpError(429, message,
              IF retryAfter # <<>> THEN Header("retry-after", retryAfter)
                                   ELSE NoHeaders)

\* the HttpErrors a handler or a middleware throws in this model: every
\* variant of the taxonomy, the 429 with a Retry-After header, and a plain
\* HttpError carrying a Content-Type header
HttpErrors ==
    { BadRequestError, UnauthorizedError, ForbiddenError, NotFoundError,
      MethodNotAllowedError, ConflictError, UnprocessableEntityError,
      InternalServerError,
      TooManyRequestsError("Too Many Requests", <<>>),
      TooManyRequestsError("slow down", <<"5">>),
      HttpError(416, "Range Not Satisfiable", Header("content-type", "text/plain")) }

\* everything user code throws in this model
Throwables == HttpErrors \cup {PlainError("boom")}

\* response(data, contentType, cookies, arbitraryHeaders, init) of
\* middleware.ts with an empty cookie jar: init.headers first, then the
\* content type, then every header of the context on top
response(data, contentType, arbitraryHeaders, status, initHeaders) ==
    LET h1 == IF contentType # "" THEN SetAll(initHeaders, Header("content-type", contentType))
                                  ELSE initHeaders
    IN  Response(status, data, SetAll(h1, arbitraryHeaders))

\* ctx.json(data, { status, headers })
CtxJson(c, data, status, initHeaders) ==
    response(JsonBody(data), "application/json", c.headers, status, initHeaders)

\* ctx.text(content)
CtxText(c, content) ==
    response(TextBody(content), "text/plain; charset=utf-8", c.headers, 200, NoHeaders)

\* new Response("", { status: 200 })
EmptyOk == Response(200, TextBody(""), NoHeaders)

\* request.headers.get("X-Request-ID") of a request without the header
NoRequestId == <<"null">>

\* the digits of Number.prototype.toString(36)
Digits36 ==
    <<"0", "1", "2", "3", "4", "5", "6", "7", "8", "9", "a", "b", "c", "d",
      "e", "f", "g", "h", "i", "j", "k", "l", "m", "n", "o", "p", "q", "r",
      "s", "t", "u", "v", "w", "x", "y", "z">>

\* k.toString(36) of a natural number
RECURSIVE toString36(_)

toString36(k) ==
    IF k < 36 THEN <<Digits36[k + 1]>>
    ELSE toString36(k \div 36) \o <<Digits36[(k % 36) + 1]>>

\* the value of nextRequestId(): (++requestId).toString(36)
nextRequestId == toString36(requestId + 1)

\* crypto.randomUUID(), an opaque identifier
randomUUID == <<"uuid">>

\* createContext(request, info, params, requestId): params is match?.params,
\* undefined when there is no match; requestId || crypto.randomUUID()
createContext(params, defined, id) ==
    [params |-> params, hasParams |-> defined, headers |-> NoHeaders,
     requestId |-> IF id # <<>> THEN id ELSE randomUUID]

NoCtx ==
    [params |-> <<>>, hasParams |-> FALSE, headers |-> NoHeaders,
     requestId |-> <<>>]

----------------------------------------------------------------------------
(* The cookie jar of a Context (cookie.ts).                                *)

\* the calls made on one jar
MaxJarCalls == 3

\* cookies[name] of a name the jar does not hold
NoCookie == <<"undefined">>

\* encodeURIComponent of one character of a cookie value
EncodeChar(c) ==
    IF c = " " THEN <<"%", "2", "0">>
    ELSE IF c = "=" THEN <<"%", "3", "D">>
    ELSE IF c = ";" THEN <<"%", "3", "B">>
    ELSE <<c>>

RECURSIVE encodeURIComponent(_)

encodeURIComponent(s) ==
    IF s = <<>> THEN <<>>
    ELSE EncodeChar(Head(s)) \o encodeURIComponent(Tail(s))

\* the options of a cookie: expires (new Date(0) or none), maxAge (0 or
\* none), path ("" when omitted); secure, httpOnly and sameSite are left
\* to their defaults
CookieOptions == [expires : BOOLEAN, maxAge : BOOLEAN, path : {<<>>, <<"/">>}]

\* serializeCookie(name, value, options); an attribute is one token
serializeCookie(name, value, opts) ==
    name \o <<"=">> \o encodeURIComponent(value)
      \o (IF opts.expires THEN <<"; Expires=Thu, 01 Jan 1970 00:00:00 GMT">> ELSE <<>>)
      \o (IF opts.maxAge THEN <<"; Max-Age=0">> ELSE <<>>)
      \o (IF opts.path # <<>> THEN <<"; Path=">> \o opts.path ELSE <<>>)
      \o <<"; Secure", "; HttpOnly", "; SameSite=Lax">>

\* deleteCookie(name, options)
deleteCookie(name, opts) ==
    serializeCookie(name, <<>>, [opts EXCEPT !.expires = TRUE, !.maxAge = TRUE])

\* the names, values and options the application uses
JarNames == {<<"s">>, <<"s", "s">>}

JarValues == {<<"a">>, <<"b", " ">>}

JarOptions == {o \in CookieOptions : ~o.expires /\ ~o.maxAge}

\* new CookieJar(null)
JarIdle ==
    /\ cookies = [n \in JarNames |-> NoCookie]
    /\ setCookieHeaders = <<>>
    /\ jarCalls = <<>>

\* the headers that do not start with name=
WithoutName(hs, name) ==
    SelectSeq(hs, LAMBDA h : ~StartsWith(h, name \o <<"=">>))

\* jar.set(name, value, options)
CookieJarSet(name, value, opts) ==
    /\ Len(jarCalls) < MaxJarCalls
    /\ cookies' = [cookies EXCEPT ![name] = value]
    /\ setCookieHeaders' =
          Append(WithoutName(setCookieHeaders, name),
                 serializeCookie(name, value, opts))
    /\ jarCalls' = Append(jarCalls, [op |-> "set", name |-> name,
                                     header |-> serializeCookie(name, value, opts)])
    /\ UNCHANGED <<trieVars, fetchVars, limitVars, staticVars, groupVars, idVars>>

\* jar.delete(name, options)
CookieJarDelete(name, opts) ==
    /\ Len(jarCalls) < MaxJarCalls
    /\ cookies' = [cookies EXCEPT ![name] = NoCookie]
    /\ setCookieHeaders' = Append(setCookieHeaders, deleteCookie(name, opts))
    /\ jarCalls' = Append(jarCalls, [op |-> "delete", name |-> name,
                                     header |-> deleteCookie(name, opts)])
    /\ UNCHANGED <<trieVars, fetchVars, limitVars, staticVars, groupVars, idVars>>

----------------------------------------------------------------------------
(* Middleware and handlers of the application.                             *)

\* what a middleware does: how often it calls next(), what it does before
\*   pass    return next()
\*   header  const r = await next(); r.headers.set("x-a", "1"); return r
\*   set     ctx.set("Retry-After", "9"); return next()
\*   twice   await next(); return next()
\*   short   return ctx.text("short"), next() is never called
\*   throws  throws before calling next()
MwKinds == {"pass", "header", "set", "twice", "short", "throws"}

\* the number of next() calls of a middleware
NextCalls(kind) ==
    IF kind \in {"short", "throws"} THEN 0
    ELSE IF kind = "twice" THEN 2 ELSE 1

\* what a route handler does: ok returns ctx.json({ ok: true }), void
\* returns nothing, throws throws
HandlerKinds == {"ok", "void", "throws"}

\* config.onNotFound: the default of router.ts, or one that throws
NotFoundKinds == {"default", "throws"}

\* config.onError: the default of router.ts, a custom handler answering 503,
\* or a handler that throws
ErrorKinds == {"default", "custom", "throws"}

\* the default config.onNotFound
DefaultNotFound(c, pathname) ==
    CtxJson(c, [error |-> "Not Found", path |-> pathname], 404, NoHeaders)

\* config.onError(e, ctx)
OnError(kind, e, c) ==
    IF kind = "default"
    THEN CtxJson(c, [error |-> "Internal Server Error", message |-> e.message],
                 500, NoHeaders)
    ELSE IF kind = "custom" THEN CtxText(c, "custom error") 
    ELSE Rejected

----------------------------------------------------------------------------
(* The router: use() and fetch().                                          *)

MaxMiddlewares == 2

\* no request yet
RequestIdle ==
    /\ middlewares = <<>>
    /\ pc = "setup"
    /\ request = [method |-> "", pathname |-> <<>>]
    /\ ctx = NoCtx
    /\ idx = 0
    /\ stack = <<>>
    /\ mode = "idle"
    /\ val = NoVal
    /\ trace = <<>>
    /\ thrown = NoVal
    /\ errCalls = <<>>
    /\ reply = NoVal
    /\ requestId = 0
    /\ inbound = NoRequestId
    /\ issued = <<>>
    /\ parked = <<>>

\* createRouter() with the default config
FetchIdle ==
    /\ config = [onError |-> "default", onNotFound |-> "default"]
    /\ RequestIdle

\* router.use(mw)
use(mw) ==
    /\ pc = "setup"
    /\ Len(middlewares) < MaxMiddlewares
    /\ middlewares' = Append(middlewares, mw)
    /\ UNCHANGED <<trieVars, sideVars, idVars, config, pc, request, ctx, idx, stack,
                   mode, val, trace, thrown, errCalls, reply>>

\* the method fetch looks up: HEAD falls back to GET without HEAD routes
LookupMethod(method) ==
    IF method = "HEAD" /\ Len(routes["HEAD"]) = 0 THEN "GET" ELSE method

\* the outer catch of fetch: onError with the context, created if missing
OuterCatch(e, c) == OnError(config.onError, e, c)

\* the inner catch of fetch: an HttpError becomes a JSON response, anything
\* else is rethrown to the outer catch; calls are the calls of onError
InnerCatchSwallow(e, c) ==
    [reply |-> CtxJson(c, [error |-> e.message], 500, NoHeaders), calls |-> <<>>]

InnerCatchNoHeaders(e, c) ==
    IF e.kind = "http"
    THEN [reply |-> CtxJson(c, [error |-> e.message], e.status, NoHeaders),
          calls |-> <<>>]
    ELSE [reply |-> OuterCatch(e, c), calls |-> <<e>>]

InnerCatch(e, c) ==
    IF e.kind = "http"
    THEN [reply |-> CtxJson(c, [error |-> e.message], e.status, e.headers),
          calls |-> <<>>]
    ELSE [reply |-> OuterCatch(e, c), calls |-> <<e>>]

\* fetch, up to the call of the composed chain, for a request whose
\* X-Request-ID header is header; the header is never read
FetchRequest(method, pathname, header) ==
    /\ pc = "setup"
    /\ request' = [method |-> method, pathname |-> pathname]
    /\ inbound' = header
    /\ requestId' = requestId + 1
    /\ issued' = Append(issued, [header |-> header, requestId |-> nextRequestId])
    /\ UNCHANGED <<tries, routes, sideVars, middlewares, config, idx, stack, trace,
                   parked>>
    /\ IF IsHttpMethod(LookupMethod(method))
       THEN LET match == matchRoute(tries[LookupMethod(method)], pathname) IN
            /\ lastPath' = pathname
            /\ result' = match
            /\ ctx' = createContext(match.params, match.found, nextRequestId)
            /\ pc' = "run"
            /\ mode' = "call"
            /\ UNCHANGED <<val, thrown, errCalls, reply>>
       ELSE \* tries[method] is undefined: matchRoute throws a TypeError
            LET e == PlainError("Cannot read properties of undefined")
                c == createContext(<<>>, TRUE, nextRequestId)
            IN  /\ UNCHANGED <<lastPath, result, val>>
                /\ ctx' = c
                /\ thrown' = e
                /\ errCalls' = <<e>>
                /\ reply' = OuterCatch(e, c)
                /\ pc' = "done"
                /\ mode' = "idle"

\* fetch for a request without an X-Request-ID header
FetchStart(method, pathname) == FetchRequest(method, pathname, NoRequestId)

\* handle(ctx) of fetch: the matched route's handler, or config.onNotFound
Handle(v) ==
    /\ trace' = Append(trace, [ev |-> IF result.found THEN "handler" ELSE "notfound",
                               mw |-> 0])
    /\ val' = v
    /\ thrown' = IF v.kind = "resp" THEN thrown ELSE v
    /\ mode' = "ret"
    /\ UNCHANGED <<trieVars, sideVars, idVars, middlewares, config, pc, request, ctx,
                   idx, stack, errCalls, reply>>

\* dispatch() past the last middleware (or handle itself without middleware)
DispatchHandler ==
    /\ pc = "run" /\ mode = "call"
    /\ idx >= Len(middlewares)
    /\ IF result.found
       THEN LET kind == routes[LookupMethod(request.method)][result.route].handler IN
            \/ kind = "ok" /\ Handle(CtxJson(ctx, [ok |-> TRUE], 200, NoHeaders))
            \/ kind = "void" /\ Handle(EmptyOk)
            \/ kind = "throws" /\ \E e \in Throwables : Handle(e)
       ELSE \/ config.onNotFound = "default"
               /\ Handle(DefaultNotFound(ctx, request.pathname))
            \/ config.onNotFound = "throws" /\ \E e \in Throwables : Handle(e)

\* dispatch() with i < middlewares.length: the middleware runs up to its
\* first call of next(), its return or its throw
DispatchMiddleware ==
    /\ pc \in {"run", "compose"} /\ mode = "call"
    /\ LET i == idx IN
       /\ i < Len(middlewares)
       /\ LET k == i + 1
              kind == middlewares[k]
              entered == Append(trace, [ev |-> "enter", mw |-> k])
          IN
          /\ idx' = i + 1
          /\ UNCHANGED <<trieVars, sideVars, idVars, middlewares, config, pc, request,
                         errCalls, reply>>
          /\ \/ /\ kind \in {"pass", "header", "set", "twice"}
                /\ ctx' = IF kind = "set"
                          THEN [ctx EXCEPT !.headers = SetAll(@, Header("retry-after", <<"9">>))]
                          ELSE ctx
                /\ stack' = Append(stack, [mw |-> k, left |-> NextCalls(kind) - 1])
                /\ trace' = Append(entered, [ev |-> "next", mw |-> k])
                /\ UNCHANGED <<mode, val, thrown>>
             \/ /\ kind = "short"
                /\ val' = CtxText(ctx, "short")
                /\ mode' = "ret"
                /\ trace' = entered
                /\ UNCHANGED <<ctx, stack, thrown>>
             \/ /\ kind = "throws"
                /\ \E e \in Throwables : val' = e /\ thrown' = e
                /\ mode' = "ret"
                /\ trace' = entered
                /\ UNCHANGED <<ctx, stack>>

\* what a middleware returns once its last next() has resolved to r
PostProcess(kind, r) ==
    IF kind = "header"
    THEN [r EXCEPT !.headers = SetAll(@, Header("x-a", "1"))]
    ELSE r

\* a call of next() settles: the suspended middleware goes on
Return ==
    /\ pc \in {"run", "compose"} /\ mode = "ret" /\ stack # <<>>
    /\ LET top == stack[Len(stack)]
           rest == SubSeq(stack, 1, Len(stack) - 1)
       IN
       /\ UNCHANGED <<trieVars, sideVars, idVars, middlewares, config, pc, request, ctx,
                      idx, thrown, errCalls, reply>>
       /\ IF val.kind # "resp"
          THEN \* next() rejects and the middleware does not catch
               /\ stack' = rest
               /\ UNCHANGED <<mode, val, trace>>
          ELSE IF top.left > 0
          THEN \* the middleware calls next() again
               /\ stack' = Append(rest, [top EXCEPT !.left = @ - 1])
               /\ mode' = "call"
               /\ val' = NoVal
               /\ trace' = Append(trace, [ev |-> "next", mw |-> top.mw])
          ELSE /\ stack' = rest
               /\ val' = PostProcess(middlewares[top.mw], val)
               /\ UNCHANGED <<mode, trace>>

\* the body of a HEAD response is stripped, status and headers are kept
StripHead(method, r) ==
    IF method = "HEAD" /\ r.body.kind # "null"
    THEN Response(r.status, NullBody, r.headers)
    ELSE r

\* the composed chain settles: fetch returns, or catches what was thrown
Finish ==
    /\ pc = "run" /\ mode = "ret" /\ stack = <<>>
    /\ pc' = "done"
    /\ mode' = "idle"
    /\ UNCHANGED <<trieVars, sideVars, idVars, middlewares, config, request, ctx, idx,
                   stack, val, trace, thrown>>
    /\ IF val.kind = "resp"
       THEN /\ reply' = StripHead(request.method, val)
            /\ UNCHANGED errCalls
       ELSE /\ reply' = InnerCatch(val, ctx).reply
            /\ errCalls' = errCalls \o InnerCatch(val, ctx).calls

----------------------------------------------------------------------------
(* compose(middlewares, handler) called on its own (middleware.ts).        *)

\* a handler returned no value
Undefined == [kind |-> "undefined"]

\* what a handler of the given kind returns or throws
HandlerValues(kind, c) ==
    IF kind = "ok" THEN {CtxJson(c, [ok |-> TRUE], 200, NoHeaders)}
    ELSE IF kind = "void" THEN {Undefined}
    ELSE Throwables

\* result || new Response("", { status: 200 })
OrEmptyOk(v) == IF v = Undefined THEN EmptyOk ELSE v

\* compose(middlewares, handler)(ctx) for the handler of the first GET
\* route: without middleware compose returns the handler itself, which is
\* called; otherwise dispatch() is called with i = 0
ComposeStart ==
    /\ pc = "setup"
    /\ routes["GET"] # <<>>
    /\ ctx' = createContext(<<>>, TRUE, <<>>)
    /\ UNCHANGED <<trieVars, sideVars, idVars, middlewares, config, request, idx, stack,
                   errCalls, reply>>
    /\ IF Len(middlewares) = 0
       THEN /\ pc' = "compose"
            /\ mode' = "ret"
            /\ trace' = Append(trace, [ev |-> "handler", mw |-> 0])
            /\ \E v \in HandlerValues(routes["GET"][1].handler, ctx') :
                  /\ val' = v
                  /\ thrown' = IF v.kind \in {"resp", "undefined"} THEN thrown ELSE v
       ELSE /\ pc' = "compose"
            /\ mode' = "call"
            /\ UNCHANGED <<val, trace, thrown>>

\* dispatch() past the last middleware: the handler runs, and no value
\* becomes an empty 200 response
ComposeHandler ==
    /\ pc = "compose" /\ mode = "call"
    /\ idx >= Len(middlewares)
    /\ \E v \in HandlerValues(routes["GET"][1].handler, ctx) :
          /\ val' = OrEmptyOk(v)
          /\ thrown' = IF v.kind \in {"resp", "undefined"} THEN thrown ELSE v
    /\ trace' = Append(trace, [ev |-> "handler", mw |-> 0])
    /\ mode' = "ret"
    /\ UNCHANGED <<trieVars, sideVars, idVars, middlewares, config, pc, request, ctx,
                   idx, stack, errCalls, reply>>

\* the composed callable settles: what it resolves to, or a rejection
ComposeFinish ==
    /\ pc = "compose" /\ mode = "ret" /\ stack = <<>>
    /\ pc' = "composed"
    /\ mode' = "idle"
    /\ reply' = IF val.kind \in {"resp", "undefined"} THEN val ELSE Rejected
    /\ UNCHANGED <<trieVars, sideVars, idVars, middlewares, config, request, ctx, idx,
                   stack, val, trace, thrown, errCalls>>

----------------------------------------------------------------------------
(* Route groups (group of router.ts).                                      *)

\* config.prefix + prefix: the prefix of the sub-router of group(prefix, ...)
GroupPrefixOwn(parentPrefix, prefix) == prefix

GroupPrefix(parentPrefix, prefix) == parentPrefix \o prefix

\* on(): config.prefix + path, then new URLPattern({ pathname }), whose
\* pathname extractPattern reads back
OnPath(prefix, path) == prefix \o path

\* the handler of a merged route: compose(subRouter.middlewares,
\* route.handler) when the sub-router has middleware, else route.handler
groupHandlerBare(mws, handler) == handler

groupHandler(mws, handler) ==
    IF Len(mws) > 0
    THEN [kind |-> "composed", mws |-> mws, inner |-> <<handler>>]
    ELSE handler

RECURSIVE RunHandler(_)
\* the calls made when a route handler runs: a composed handler enters its
\* middleware in order, each calling next() once, then its inner handler
RunHandler(handler) ==
    IF handler.kind = "composed"
    THEN handler.mws \o RunHandler(handler.inner[1])
    ELSE <<handler>>

\* the routes of a sub-router registered under one method, in order
RoutesOf(rs, method) == SelectSeq(rs, LAMBDA r : r.method = method)

RECURSIVE MergeRoutes(_, _, _)
\* the loop of group() for one method: each route of the sub-router is
\* pushed onto the parent's list with the group handler
MergeRoutes(rs, sub, mws) ==
    IF sub = <<>> THEN rs
    ELSE MergeRoutes(Append(rs, [sub[1] EXCEPT !.handler = groupHandler(mws, @)]),
                     Tail(sub), mws)

RECURSIVE MergeTrie(_, _, _)
\* the loop of group() for one method: each route of the sub-router is
\* inserted in the parent's trie under its own pattern; at is the number of
\* routes the parent's list held before the route
MergeTrie(ns, sub, at) ==
    IF sub = <<>> THEN ns
    ELSE MergeTrie(insertRoute(ns, sub[1].pattern, at + 1), Tail(sub), at + 1)

\* allRoutes() read from the tries: per method and pattern, the route
\* registered last
allRoutesDistinct(rs) ==
    LET one(m) == [i \in 1..Len(rs[m]) |->
                      [method |-> m, pattern |-> rs[m][i].pattern,
                       metadata |-> rs[m][i].metadata]]
        keep(m) == SelectSeq(one(m), LAMBDA e :
                       \A i \in 1..Len(one(m)) :
                           one(m)[i].pattern = e.pattern =>
                               one(m)[i].metadata.tag <= e.metadata.tag)
    IN  keep(httpMethods[1]) \o keep(httpMethods[2]) \o keep(httpMethods[3])
          \o keep(httpMethods[4]) \o keep(httpMethods[5]) \o keep(httpMethods[6])
          \o keep(httpMethods[7])

RECURSIVE FlatMapRoutes(_, _)
\* httpMethods.flatMap(method => rs[method].map(...)) from method k on
FlatMapRoutes(rs, k) ==
    IF k > Len(httpMethods) THEN <<>>
    ELSE LET m == httpMethods[k]
         IN  [i \in 1..Len(rs[m]) |->
                 [method |-> m, pattern |-> rs[m][i].pattern,
                  metadata |-> rs[m][i].metadata]]
             \o FlatMapRoutes(rs, k + 1)

\* router.allRoutes()
allRoutes(rs) == FlatMapRoutes(rs, 1)

\* no sub-router, no group
GroupIdle ==
    /\ frames = <<>>
    /\ ghist = <<>>
    /\ gtrace = <<>>
    /\ registered = <<>>

----------------------------------------------------------------------------
(* The rate limiter (rateLimit of middleware.ts).                          *)

Digits == <<"0", "1", "2", "3", "4", "5", "6", "7", "8", "9">>

RECURSIVE NatToString(_)
\* n.toString() for a natural number n
NatToString(k) ==
    IF k < 10 THEN <<Digits[k + 1]>>
    ELSE NatToString(k \div 10) \o <<Digits[(k % 10) + 1]>>

\* n.toString() for an integer n
NumberToString(k) == IF k < 0 THEN <<"-">> \o NatToString(-k) ELSE NatToString(k)

\* str matches /^\d+$/
IsNumeral(str) ==
    /\ str # <<>>
    /\ \A i \in 1..Len(str) : \E d \in 1..10 : Digits[d] = str[i]

RECURSIVE NumeralValue(_)
\* parseInt(str, 10) for a string of digits
NumeralValue(str) ==
    IF str = <<>> THEN 0
    ELSE 10 * NumeralValue(SubSeq(str, 1, Len(str) - 1))
            + ((CHOOSE d \in 1..10 : Digits[d] = str[Len(str)]) - 1)

\* Math.ceil(x / d) for integers x and d > 0
MathFloorDiv(x, d) == x \div d

MathCeilDiv(x, d) == -((-x) \div d)

MsPerSecond == 1000

\* the keys keygen gives (by default the remote host name of the request)
LimitKeys == {"k1", "k2"}

NoEntry == [present |-> FALSE, count |-> 0, reset |-> 0]

\* the history of a key no request has opened a window for
NoWindow ==
    [open |-> FALSE, reset |-> 0, count |-> 0, admitted |-> 0,
     throttled |-> FALSE, times |-> <<>>]

\* the key has no entry, or its window has expired: `!data || now > data.reset`
WindowOverNever(data, t) == ~data.present

\* an entry that is never reused: every request opens a window
WindowOverAlways(data, t) == TRUE

WindowOver(data, t) == ~data.present \/ t > data.reset

\* `++data.count > max`, count being the count before the increment
OverLimitPostIncrement(count, max) == count > max

OverLimit(count, max) == count + 1 > max

\* a sweep that also removes the entry whose window ends now
SweepsAtReset(data, t) == data.present /\ t >= data.reset

\* the sweep removes an entry: `now > data.reset`
Sweeps(data, t) == data.present /\ t > data.reset

\* a rateLimit instance of its own: const requests = new Map() is local to
\* the call of rateLimit, so the instance has its own Map; seq counts its
\* requests, out is what it did with the last one
NewLimiter(windowMs, max) ==
    [windowMs |-> windowMs, max |-> max, due |-> windowMs,
     requests |-> [k \in LimitKeys |-> NoEntry],
     seq |-> 0, out |-> [kind |-> "none", key |-> "", retryAfter |-> <<>>]]

\* no second instance
NoLimiter == NewLimiter(0, 0)

\* no limiter yet
LimitIdle ==
    /\ limiter = [windowMs |-> 0, max |-> 0, handler |-> "none",
                  timer |-> FALSE, due |-> 0]
    /\ requests = [k \in LimitKeys |-> NoEntry]
    /\ now = 0
    /\ inflight = 0
    /\ window = [k \in LimitKeys |-> NoWindow]
    /\ lastOut = [kind |-> "none", seq |-> 0]
    /\ limiter2 = NoLimiter

\* rateLimit({ windowMs, max, handler }) at time 0: an empty Map and an
\* interval timer of period windowMs; handler is "none" (no handler option),
\* "custom" (a handler returning a 503 response) or "void" (a handler
\* returning nothing)
rateLimit(windowMs, max, handler) ==
    /\ limiter = [windowMs |-> windowMs, max |-> max, handler |-> handler,
                  timer |-> TRUE, due |-> windowMs]
    /\ requests = [k \in LimitKeys |-> NoEntry]
    /\ now = 0
    /\ inflight = 0
    /\ window = [k \in LimitKeys |-> NoWindow]
    /\ lastOut = [kind |-> "none", seq |-> 0]

\* the history window of a key as a request at time t finds it: a request
\* opens a window of windowMs when the key has none or the last one is over;
\* count is the number of requests of the window, admitted the number of
\* those that reached next(), times the times at which requests of the key
\* reached next(), in this window and before
WindowAt(key, t) ==
    IF ~window[key].open \/ t > window[key].reset
    THEN [open |-> TRUE, reset |-> t + limiter.windowMs, count |-> 0,
          admitted |-> 0, throttled |-> FALSE, times |-> window[key].times]
    ELSE window[key]

\* the body of the middleware for a request at time t that finds the entry
\* old in the Map of a limiter with options lim: the entry it leaves, whether
\* the request is over the limit, and the Retry-After value
Admission(lim, old, t) ==
    LET fresh == WindowOver(old, t)
        data == IF fresh THEN [present |-> TRUE, count |-> 0,
                               reset |-> t + lim.windowMs]
                         ELSE old
    IN  [over |-> OverLimit(data.count, lim.max),
         entry |-> [data EXCEPT !.count = @ + 1],
         retryAfter |-> NumberToString(MathCeilDiv(data.reset - t, MsPerSecond))]

\* the middleware of rateLimit for one request with the given key: the Map
\* is read and written and next() or the handler is called without an await
\* in between, so the step is atomic
Limit(key) ==
    LET a == Admission(limiter, requests[key], now)
        over == a.over
        entry == a.entry
        retryAfter == a.retryAfter
        w == WindowAt(key, now)
        base == [kind |-> "next", value |-> NoVal, seq |-> lastOut.seq + 1,
                 key |-> key, at |-> now, entry |-> entry, before |-> w,
                 reopened |-> (window[key].open /\ now > window[key].reset),
                 wasThrottled |-> window[key].throttled]
    IN  /\ requests' = [requests EXCEPT ![key] = entry]
        /\ IF ~over
           THEN /\ lastOut' = base
                /\ window' = [window EXCEPT ![key] =
                                 [w EXCEPT !.count = @ + 1, !.admitted = @ + 1,
                                           !.times = Append(@, now)]]
                /\ inflight' = inflight + 1
           ELSE /\ window' = [window EXCEPT ![key] =
                                 [w EXCEPT !.count = @ + 1, !.throttled = TRUE]]
                /\ inflight' = inflight
                /\ IF limiter.handler = "custom"
                   THEN lastOut' = [base EXCEPT !.kind = "custom",
                                        !.value = CtxText(NoCtx, "custom limit")]
                   ELSE lastOut' = [base EXCEPT !.kind = "throw",
                                        !.value = TooManyRequestsError(
                                                    "Too Many Requests Error", retryAfter)]
        /\ UNCHANGED <<limiter, now, limiter2>>

\* a second instance that keeps its entries in the Map of the first
SecondLimitShared(key) ==
    LET a == Admission(limiter2, requests[key], now)
    IN  /\ requests' = [requests EXCEPT ![key] = a.entry]
        /\ limiter2' = [limiter2 EXCEPT
                         !.seq = @ + 1,
                         !.out = [kind |-> IF a.over THEN "throw" ELSE "next",
                                  key |-> key,
                                  retryAfter |-> IF a.over THEN a.retryAfter ELSE <<>>]]
        /\ UNCHANGED <<limiter, now, inflight, window, lastOut>>

\* the middleware of the second instance (no handler option) for one
\* request with the given key
SecondLimit(key) ==
    LET a == Admission(limiter2, limiter2.requests[key], now)
    IN  /\ limiter2' = [limiter2 EXCEPT
                         !.requests[key] = a.entry,
                         !.seq = @ + 1,
                         !.out = [kind |-> IF a.over THEN "throw" ELSE "next",
                                  key |-> key,
                                  retryAfter |-> IF a.over THEN a.retryAfter ELSE <<>>]]
        /\ UNCHANGED <<limiter, requests, now, inflight, window, lastOut>>

\* the interval callback of the second instance
SecondSweep ==
    /\ limiter2.windowMs > 0
    /\ now >= limiter2.due
    /\ limiter2' = [limiter2 EXCEPT
                      !.requests = [k \in LimitKeys |->
                                       IF Sweeps(limiter2.requests[k], now)
                                       THEN NoEntry ELSE limiter2.requests[k]],
                      !.due = @ + limiter2.windowMs]
    /\ UNCHANGED <<limiter, requests, now, inflight, window, lastOut>>

\* the interval callback of rateLimit: expired entries are deleted
Sweep ==
    /\ limiter.timer
    /\ now >= limiter.due
    /\ requests' = [k \in LimitKeys |->
                        IF Sweeps(requests[k], now) THEN NoEntry ELSE requests[k]]
    /\ limiter' = [limiter EXCEPT !.due = @ + limiter.windowMs]
    /\ UNCHANGED <<now, inflight, window, lastOut, limiter2>>

\* limiter.cleanup(): clearInterval
cleanup ==
    /\ limiter.timer
    /\ limiter' = [limiter EXCEPT !.timer = FALSE]
    /\ UNCHANGED <<requests, now, inflight, window, lastOut, limiter2>>

----------------------------------------------------------------------------
(* The static file middleware (staticFiles of middleware.ts).              *)

\* the pathname of new URL(request.url) for a raw request path: "." and
\* ".." segments, also written with %2E, are resolved by the URL parser;
\* other escapes stay as they are
IsSingleDot(seg) == seg \in { <<".">>, <<"%", "2", "E">> }

IsDoubleDot(seg) ==
    seg \in { <<".", ".">>, <<".", "%", "2", "E">>, <<"%", "2", "E", ".">>,
              <<"%", "2", "E", "%", "2", "E">> }

RECURSIVE UrlPathState(_, _)
\* the path state of the URL parser over the segments of the raw path
UrlPathState(segs, path) ==
    IF segs = <<>> THEN path
    ELSE LET seg == Head(segs)
             last == Len(segs) = 1
             shortened == IF path = <<>> THEN path
                          ELSE SubSeq(path, 1, Len(path) - 1)
         IN  IF IsDoubleDot(seg)
             THEN UrlPathState(Tail(segs),
                               IF last THEN Append(shortened, <<>>) ELSE shortened)
             ELSE IF IsSingleDot(seg)
             THEN UrlPathState(Tail(segs),
                               IF last THEN Append(path, <<>>) ELSE path)
             ELSE UrlPathState(Tail(segs), Append(path, seg))

\* url.pathname for a raw path starting with "/"
UrlPathname(raw) == <<"/">> \o Join(UrlPathState(Split(Tail(raw)), <<>>))

RECURSIVE NormalizeSegs(_, _)
\* normalizeString of @std/path on an absolute path: empty and "." parts
\* are dropped, ".." drops the part before it and is ignored at the top
NormalizeSegs(parts, acc) ==
    IF parts = <<>> THEN acc
    ELSE LET part == Head(parts)
         IN  IF part = <<>> \/ part = <<".">>
             THEN NormalizeSegs(Tail(parts), acc)
             ELSE IF part = <<".", ".">>
             THEN NormalizeSegs(Tail(parts),
                                IF acc = <<>> THEN acc
                                ELSE SubSeq(acc, 1, Len(acc) - 1))
             ELSE NormalizeSegs(Tail(parts), Append(acc, part))

\* resolve(base, rel) of @std/path for an absolute base: an absolute rel
\* replaces base, an empty rel is skipped
resolve(base, rel) ==
    LET joined == IF StartsWith(rel, <<"/">>) THEN rel
                  ELSE IF rel = <<>> THEN base
                  ELSE base \o <<"/">> \o rel
    IN  <<"/">> \o Join(NormalizeSegs(Split(joined), <<>>))

\* join(dir, name) of @std/path
join(dir, name) == <<"/">> \o Join(NormalizeSegs(Split(dir \o <<"/">> \o name), <<>>))

RECURSIVE LastIndexOf(_, _)
\* s.lastIndexOf(c), 0 when absent
LastIndexOf(s, c) ==
    IF s = <<>> THEN 0
    ELSE IF s[Len(s)] = c THEN Len(s)
    ELSE LastIndexOf(SubSeq(s, 1, Len(s) - 1), c)

\* extname(path) of @std/path: from the last dot of the last part, empty
\* when the part has no dot or only a leading one
extname(path) ==
    LET base == SubSeq(path, LastIndexOf(path, "/") + 1, Len(path))
        dot == LastIndexOf(base, ".")
    IN  IF dot <= 1 THEN <<>> ELSE SubSeq(base, dot, Len(base))

\* getContentType(ext) || "application/octet-stream"
getContentType(ext) ==
    IF ext = <<".", "t", "x", "t">> THEN "text/plain; charset=utf-8"
    ELSE IF ext = <<".", "h", "t", "m", "l">> THEN "text/html; charset=utf-8"
    ELSE "application/octet-stream"

\* the file tree: staticFiles("p") with Deno.cwd() = "/", so the root is /p;
\* /p holds the file s, the index file i, the dotfile .s and the directory
\* .p with the file s; /ps and /s are files outside
StaticRoot == resolve(<<"/">>, <<"p">>)

FsDirs == { <<"/">>, <<"/", "p">>, <<"/", "p", "/", ".", "p">> }

FsFiles == { <<"/", "p", "/", "s">>, <<"/", "p", "/", "i">>,
             <<"/", "p", "/", ".", "s">>, <<"/", "p", "/", ".", "p", "/", "s">>,
             <<"/", "p", "s">>, <<"/", "s">> }

\* Deno.readFile(path) for a file of the tree
readFile(path) ==
    IF path = <<"/", "p", "/", "s">> THEN <<"a", "b", "c">>
    ELSE IF path = <<"/", "p", "/", "i">> THEN <<"i", "x">>
    ELSE IF path = <<"/", "p", "/", ".", "s">> THEN <<"e", "n", "v">>
    ELSE IF path = <<"/", "p", "/", ".", "p", "/", "s">> THEN <<"g", "i", "t", "c">>
    ELSE IF path = <<"/", "p", "s">> THEN <<"k", "e", "y">>
    ELSE <<"r">>

\* hashFile(bytes): the hex SHA-256 digest, one value per content
hashFile(bytes) == <<"sha256">> \o bytes

MaxRangeLength == 128 * 1024 * 1024

RangeUnit == <<"b", "y", "t", "e", "s", "=">>

RECURSIVE IndexOf(_, _, _)
\* the first position of c in s from position i on, 0 when absent
IndexOf(s, c, i) ==
    IF i > Len(s) THEN 0
    ELSE IF s[i] = c THEN i ELSE IndexOf(s, c, i + 1)

NoRange == [ok |-> FALSE, start |-> 0, end |-> 0]

\* parseRangeHeader(rangeHeader, fileSize): /^bytes=(\d+)-(\d*)$/, then the
\* bounds are checked against the file size and the maximal range length
parseRangeHeader(rangeHeader, fileSize) ==
    IF ~StartsWith(rangeHeader, RangeUnit) THEN NoRange
    ELSE LET rest == SubSeq(rangeHeader, Len(RangeUnit) + 1, Len(rangeHeader))
             dash == IndexOf(rest, "-", 1)
         IN  IF dash = 0 THEN NoRange
             ELSE LET first == SubSeq(rest, 1, dash - 1)
                      second == SubSeq(rest, dash + 1, Len(rest))
                  IN  IF ~IsNumeral(first) \/ (second # <<>> /\ ~IsNumeral(second))
                      THEN NoRange
                      ELSE LET start == NumeralValue(first)
                               end == IF second # <<>> THEN NumeralValue(second)
                                      ELSE fileSize - 1
                           IN  IF \/ start < 0 \/ end < 0
                                  \/ start > end
                                  \/ start >= fileSize
                                  \/ end >= fileSize
                                  \/ (end - start + 1) > MaxRangeLength
                               THEN NoRange
                               ELSE [ok |-> TRUE, start |-> start, end |-> end]

\* what the middleware did: it returned next() ("next"), returned a Response
\* of its own ("resp") or threw ("throw"); resolved is the resolved filepath
\* (empty when the middleware did not get that far), file the path given to
\* Deno.readFile, nexts the number of calls of next()
Outcome(kind, value, resolved, file, nexts) ==
    [kind |-> kind, value |-> value, resolved |-> resolved, file |-> file,
     nexts |-> nexts]

NotServed == Outcome("none", NoVal, <<>>, <<>>, 0)

\* ctx.request.headers.get("If-None-Match") === hash
EtagMatchesQuoted(ifNoneMatch, hash) == ifNoneMatch = <<"\"">> \o hash \o <<"\"">>

EtagMatches(ifNoneMatch, hash) == ifNoneMatch = hash

\* file.slice(start, end + 1)
ChunkExclusive(file, start, end) == SubSeq(file, start + 1, end)

Chunk(file, start, end) == SubSeq(file, start + 1, end + 1)

\* the part of staticFiles after Deno.readFile(filepath) succeeded; a 416
\* is thrown inside the try block, whose catch calls next(): the outcome is
\* "next" and its value the error that was thrown and caught
serveFile(opts, req, resolved, filepath) ==
    LET file == readFile(filepath)
        size == Len(file)
        h0 == Header("content-type", getContentType(extname(filepath)))
        hash == hashFile(file)
        h1 == IF opts.etag THEN SetAll(h0, Header("etag", hash)) ELSE h0
        range == parseRangeHeader(req.range, size)
        h2 == SetAll(SetAll(SetAll(h1,
                 Header("content-range",
                        <<"bytes ">> \o NumberToString(range.start) \o <<"-">>
                          \o NumberToString(range.end) \o <<"/">>
                          \o NumberToString(size))),
                 Header("accept-ranges", "bytes")),
                 Header("content-length",
                        NumberToString(range.end - range.start + 1)))
        directives == <<"max-age=">> \o NumberToString(opts.maxAge)
                         \o (IF opts.immutable THEN <<", ", "immutable">> ELSE <<>>)
        h3 == IF opts.maxAge > 0 \/ opts.immutable
              THEN SetAll(h1, Header("cache-control", directives)) ELSE h1
    IN  IF opts.etag /\ EtagMatches(req.ifNoneMatch, hash)
        THEN Outcome("resp", Response(304, NullBody, h1), resolved, filepath, 0)
        ELSE IF req.range # <<>>
        THEN IF ~range.ok
             THEN Outcome("next",
                          HttpError(416, "Range Not Satisfiable",
                                    SetAll(h1, Header("content-range",
                                                      <<"bytes */">> \o NumberToString(size)))),
                          resolved, filepath, 1)
             ELSE Outcome("resp",
                          Response(206,
                                   TextBody(Chunk(file, range.start, range.end)),
                                   h2),
                          resolved, filepath, 0)
        ELSE Outcome("resp", Response(200, TextBody(file), h3), resolved, filepath, 0)

\* the path below the root has a part starting with a dot
HasDotSegment(resolved) ==
    LET parts == Split(resolved)
    IN  \E k \in (Len(Split(StaticRoot)) + 1)..Len(parts) :
            StartsWith(parts[k], <<".">>)

\* the dotfiles option applied to a resolved path inside the root: "serve"
\* for a path without a dot part and under allow, "next" under ignore,
\* "deny" under deny
dotfilesAllowAll(policy, resolved) == "serve"

dotfiles(policy, resolved) ==
    IF ~HasDotSegment(resolved) \/ policy = "allow" THEN "serve"
    ELSE IF policy = "deny" THEN "deny"
    ELSE "next"

\* the middleware returned by staticFiles(root, opts) for one request
staticFiles(opts, req) ==
    IF req.method # "GET" /\ req.method # "HEAD"
    THEN Outcome("next", NoVal, <<>>, <<>>, 1)
    ELSE LET pathname == UrlPathname(req.path)
         IN  IF DecodeThrows(pathname)
             THEN Outcome("throw", PlainError("URI malformed"), <<>>, <<>>, 0)
             ELSE LET decodedPath == decodeURIComponent(pathname)
                      resolved == resolve(StaticRoot, Tail(decodedPath))
                      filepath == IF resolved \in FsDirs
                                  THEN join(resolved, opts.index) ELSE resolved
                      policy == dotfiles(opts.dotfiles, resolved)
                  IN  IF ~StartsWith(resolved, StaticRoot)
                      THEN Outcome("next", NoVal, resolved, <<>>, 1)
                      ELSE IF policy = "next"
                      THEN Outcome("next", NoVal, resolved, <<>>, 1)
                      ELSE IF policy = "deny"
                      THEN Outcome("throw", ForbiddenError, resolved, <<>>, 0)
                      ELSE IF resolved \notin FsDirs \cup FsFiles
                      THEN Outcome("next", NoVal, resolved, <<>>, 1)
                      ELSE IF filepath \notin FsFiles
                      THEN Outcome("next", NoVal, resolved, <<>>, 1)
                      ELSE serveFile(opts, req, resolved, filepath)

\* what fetch returns for the request when staticFiles is the only
\* middleware of a router without routes: the middleware's response, the
\* result of the inner catch, or the not-found response behind next()
StaticFetch(req, out) ==
    IF out.kind = "resp" THEN StripHead(req.method, out.value)
    ELSE IF out.kind = "throw" THEN InnerCatch(out.value, NoCtx).reply
    ELSE StripHead(req.method, DefaultNotFound(NoCtx, UrlPathname(req.path)))

NoOptions == [index |-> <<>>, etag |-> FALSE, maxAge |-> 0, immutable |-> FALSE,
              dotfiles |-> "ignore"]

NoRequest == [method |-> "", path |-> <<>>, ifNoneMatch |-> <<>>, range |-> <<>>]

\* no static file middleware yet
StaticIdle ==
    /\ options = NoOptions
    /\ srequest = NoRequest
    /\ served = NotServed
    /\ sreply = NoVal
    /\ previous = <<>>

----------------------------------------------------------------------------
(* Specification SpecTrie: routes are registered on the GET trie in any    *)
(* order and paths are matched against it.                                 *)

MaxRoutes == 3

TriePatterns ==
    { <<"/">>,
      <<"/", "u", "/", "a">>,
      <<"/", "u", "/", ":", "i">>,
      <<"/", "u", "/", "*">>,
      <<"/", "u", "/", "a", "/", "b">>,
      <<"/", "u", "/", ":", "j", "?">>,
      <<"/", "u", "/", ":", "i", "?">>,
      <<"/", "u", "/", ":", "i", "/", "b">>,
      <<"/", ":", "k", "?">>,
      <<"/", "*">> }

TriePaths ==
    { <<"/">>,
      <<"/", "u">>,
      <<"/", "u", "/", "a">>,
      <<"/", "u", "/", "b">>,
      <<"/", "u", "/", "a", "/", "b">>,
      <<"/", "u", "/", "b", "/", "b">>,
      <<"/", "u", "/">>,
      <<"/", "/">>,
      <<"/", "u", "/", "%", "2", "0">>,
      <<"/", "u", "/", "%", "Z">> }

TrieInit ==
    /\ InitRouter
    /\ lastPath = NoPath
    /\ result = NoMatch
    /\ JarIdle
    /\ FetchIdle
    /\ LimitIdle
    /\ StaticIdle
    /\ GroupIdle

\* router.get(pattern, handler)
Register(pattern) ==
    /\ Len(routes["GET"]) < MaxRoutes
    /\ on("GET", pattern, "ok")
    /\ lastPath' = NoPath
    /\ result' = NoMatch
    /\ UNCHANGED <<fetchVars, sideVars, idVars>>

\* matchRoute(tries["GET"], path), as fetch calls it
Match(path) ==
    /\ lastPath' = path
    /\ result' = matchRoute(tries["GET"], path)
    /\ UNCHANGED <<tries, routes>>
    /\ UNCHANGED <<fetchVars, sideVars, idVars>>

TrieNext ==
    \/ \E pattern \in TriePatterns : Register(pattern)
    \/ \E path \in TriePaths : Match(path)

SpecTrie == TrieInit /\ [][TrieNext]_vars

----------------------------------------------------------------------------
(* Claims on the route trie.                                               *)

\* the segments matchRoute searches for the last path
LastSegments == Split(StripSlashes(lastPath))

\* the result of search's branch through child c of node n at index i
ViaChild(ns, n, c, i) ==
    searchBranch(ns, LastSegments, n, c, i, <<>>, FALSE).res

\* the children of n through which the search from (n, i) reaches a terminal
LiveChildren(ns, n, i) ==
    {c \in {ns[n].children[k] : k \in 1..Len(ns[n].children)} :
        ViaChild(ns, n, c, i).found}

\* C1: at every trie node, when the rest of the path reaches a terminal
\* through children of several kinds, the search selects a terminal reached
\* through a child of the lowest kind (STATIC before PARAM before WILDCARD),
\* and matchRoute returns the route selected at the root, in whatever order
\* the routes were registered.
StaticBeatsParamBeatsWildcard ==
    (lastPath # NoPath /\ lastPath # <<"/">>) =>
        LET ns == tries["GET"] IN
        /\ \A n \in 1..Len(ns) : \A i \in 1..Len(LastSegments) :
              LiveChildren(ns, n, i) # {} =>
                  \E c \in LiveChildren(ns, n, i) :
                      /\ \A d \in LiveChildren(ns, n, i) : ns[c].type <= ns[d].type
                      /\ search(ns, LastSegments, n, i, <<>>, FALSE).res.route
                            = ViaChild(ns, n, c, i).route
        /\ result.found = search(ns, LastSegments, 1, 1, <<>>, FALSE).res.found
        /\ result.route = search(ns, LastSegments, 1, 1, <<>>, FALSE).res.route

\* C1 witness: /u/:i registered before /u/a, and /u/a resolves to the static
\* route; with /u/* also registered, /u/b resolves to the param route
StaticWinsWitness ==
    /\ Len(routes["GET"]) = 3
    /\ routes["GET"][1].pattern = <<"/", "u", "/", "*">>
    /\ routes["GET"][2].pattern = <<"/", "u", "/", ":", "i">>
    /\ routes["GET"][3].pattern = <<"/", "u", "/", "a">>
    /\ lastPath = <<"/", "u", "/", "a">>
    /\ result.found /\ result.route = 3

\* the pattern is <prefix>/*
IsWildcardPattern(p) ==
    Len(p) >= 2 /\ p[Len(p)] = "*" /\ p[Len(p) - 1] = "/"

\* the path is <prefix>/ followed by a remainder, which may be empty
UnderWildcard(p, path) ==
    /\ Len(path) >= Len(p) - 1
    /\ SubSeq(path, 1, Len(p) - 1) = SubSeq(p, 1, Len(p) - 1)

\* the remainder of the path after <prefix>/
Remainder(p, path) == SubSeq(path, Len(p), Len(path))

\* C20: a path <prefix>/s1/.../sn, and the path <prefix>/ itself, matches
\* when <prefix>/* is registered, and when the wildcard route is the one
\* selected its parameter * is the remainder of the path (empty for
\* <prefix>/).
WildcardBindsRemainder ==
    lastPath # NoPath =>
        \A i \in 1..Len(routes["GET"]) :
            LET p == routes["GET"][i].pattern IN
            (IsWildcardPattern(p) /\ UnderWildcard(p, lastPath)) =>
                /\ result.found
                /\ result.route = i =>
                      result.params = [k \in {<<"*">>} |-> Remainder(p, lastPath)]

\* the segments of a path or of a pattern once leading and trailing slashes
\* are stripped; the empty path has none
PathSegs(path) ==
    IF StripSlashes(path) = <<>> THEN <<>> ELSE Split(StripSlashes(path))

\* the segments of the path matched last
LastSegs == PathSegs(lastPath)

\* the segments of the pattern of route i
PatternOf(i) == PathSegs(routes["GET"][i].pattern)

IsWildcardPart(part) == part = <<"*">>

IsParamPart(part) == part # <<>> /\ part[1] = ":"

IsOptionalPart(part) == IsParamPart(part) /\ part[Len(part)] = "?"

\* the key under which a parameter or wildcard segment is delivered
PartName(part) ==
    IF IsWildcardPart(part) THEN part
    ELSE IF IsOptionalPart(part) THEN SubSeq(part, 2, Len(part) - 1)
    ELSE SubSeq(part, 2, Len(part))

RECURSIVE Conforms(_, _)
\* the path segments xs conform to the pattern segments ps: static segments
\* are equal, a parameter takes one segment, a wildcard takes the whole
\* remainder, and an optional parameter may be absent at the end of the path
Conforms(ps, xs) ==
    IF ps = <<>> THEN xs = <<>>
    ELSE IF IsWildcardPart(ps[1]) THEN TRUE
    ELSE IF xs = <<>> THEN IsOptionalPart(ps[1]) /\ Len(ps) = 1
    ELSE /\ IsParamPart(ps[1]) \/ ps[1] = xs[1]
         /\ Conforms(Tail(ps), Tail(xs))

\* the raw values the segments xs give to the parameters of ps
Bindings(ps, xs) ==
    LET at == {k \in 1..Len(ps) :
                  \/ IsWildcardPart(ps[k])
                  \/ IsParamPart(ps[k]) /\ k <= Len(xs)}
    IN  [nm \in {PartName(ps[k]) : k \in at} |->
            LET k == CHOOSE k \in at : PartName(ps[k]) = nm
            IN  IF IsWildcardPart(ps[k]) THEN Join(SubSeq(xs, k, Len(xs)))
                ELSE xs[k]]

\* a raw value as it is to be delivered: decoded when validly encoded
Delivered(value) ==
    IF Contains(value, "%") /\ ~DecodeThrows(value)
    THEN decodeURIComponent(value) ELSE value

\* the parameters a handler is to receive for pattern ps and segments xs
DeliveredParams(ps, xs) ==
    [nm \in DOMAIN Bindings(ps, xs) |-> Delivered(Bindings(ps, xs)[nm])]

\* route i is the only registered route the segments xs conform to
OnlyCandidate(i, xs) ==
    /\ Conforms(PatternOf(i), xs)
    /\ \A j \in 1..Len(routes["GET"]) : j # i => ~Conforms(PatternOf(j), xs)

\* C21: when the last segment of a route's pattern is an optional
\* parameter, the path with the segment present and the path with the
\* segment absent both resolve to that route, with the parameter bound to
\* the segment, respectively absent from the parameters.
OptionalTailMatches ==
    lastPath # NoPath =>
        \A i \in 1..Len(routes["GET"]) :
            LET ps == PatternOf(i) IN
            (/\ ps # <<>>
             /\ IsOptionalPart(ps[Len(ps)])
             /\ OnlyCandidate(i, LastSegs)) =>
                /\ result.found
                /\ result.route = i
                /\ result.params = DeliveredParams(ps, LastSegs)

\* C22: every parameter value of a match is the decoded form of what the
\* parameter was bound to when that is validly encoded and the raw text
\* when it is not, and a malformed escape does not make the match fail.
PercentDecodedParams ==
    lastPath # NoPath =>
        /\ (result.found /\ Conforms(PatternOf(result.route), LastSegs)) =>
              result.params = DeliveredParams(PatternOf(result.route), LastSegs)
        /\ (/\ \E k \in 1..Len(LastSegs) : DecodeThrows(LastSegs[k])
            /\ \E i \in 1..Len(routes["GET"]) : Conforms(PatternOf(i), LastSegs)) =>
              result.found

\* C23: a path, the path with a trailing slash added or removed and the
\* path with one more leading slash all give the same result, and a path
\* of slashes only resolves to the route of the root node.
SlashInsensitive ==
    lastPath # NoPath =>
        LET ns == tries["GET"] IN
        /\ matchRoute(ns, lastPath \o <<"/">>) = result
        /\ matchRoute(ns, StripTrailing(lastPath)) = result
        /\ matchRoute(ns, <<"/">> \o lastPath) = result
        /\ StripSlashes(lastPath) = <<>> =>
              result = IF ns[1].route # 0 THEN Found(ns[1].route, <<>>) ELSE NoMatch

\* C28: a match is only returned for a path that conforms to the pattern of
\* the matched route; without a wildcard the path has no more segments than
\* the pattern.
MatchIsSound ==
    result.found =>
        LET ps == PatternOf(result.route) IN
        /\ Conforms(ps, LastSegs)
        /\ (\A k \in 1..Len(ps) : ~IsWildcardPart(ps[k])) => Len(LastSegs) <= Len(ps)

\* C29: no match is returned only when the path conforms to the pattern of
\* no registered route.
MatchIsComplete ==
    (lastPath # NoPath /\ ~result.found) =>
        \A i \in 1..Len(routes["GET"]) : ~Conforms(PatternOf(i), LastSegs)

\* the segments of the path are those of a registered static pattern
OnStaticRoute ==
    \E i \in 1..Len(routes["GET"]) :
        /\ LastSegs # <<>>
        /\ PatternOf(i) = LastSegs
        /\ \A k \in 1..Len(LastSegs) :
              ~IsParamPart(LastSegs[k]) /\ ~IsWildcardPart(LastSegs[k])

\* C30: for a path other than the root path, matchRoute returns what the
\* backtracking search alone returns, and the parameters are empty when the
\* path is one a static walk resolves.
FastPathAgrees ==
    (lastPath # NoPath /\ lastPath # <<"/">>) =>
        LET alone == search(tries["GET"], LastSegments, 1, 1, <<>>, FALSE).res IN
        /\ result.found = alone.found
        /\ result.route = alone.route
        /\ OnStaticRoute => (result.found /\ result.params = <<>> /\ alone.params = <<>>)

\* /u/a resolved by the static walk although a parameter route registered
\* before the static one also fits
FastPathWitness ==
    /\ lastPath = <<"/", "u", "/", "a">>
    /\ Len(routes["GET"]) >= 2
    /\ routes["GET"][1].pattern = <<"/", "u", "/", ":", "i">>
    /\ routes["GET"][2].pattern = <<"/", "u", "/", "a">>
    /\ result = Found(2, <<>>)

RECURSIVE InsertAll(_, _, _)
\* the trie after registering the patterns ps[k..] in that order, the
\* route of a pattern being named by the pattern
InsertAll(ns, ps, k) ==
    IF k > Len(ps) THEN ns
    ELSE InsertAll(insertRoute(ns, ps[k], k), ps, k + 1)

\* the patterns registered, in order
Patterns == [k \in 1..Len(routes["GET"]) |-> routes["GET"][k].pattern]

\* the patterns are pairwise different
DistinctPatterns ==
    \A j, k \in 1..Len(Patterns) : j # k => Patterns[j] # Patterns[k]

\* the orders in which the registered patterns can be registered
Orders ==
    {f \in [1..Len(Patterns) -> 1..Len(Patterns)] :
        \A j, k \in 1..Len(Patterns) : j # k => f[j] # f[k]}

\* what matchRoute answers for the path when the patterns are registered
\* in order f: the pattern of the selected route and the parameters
Selected(f, path) ==
    LET ps == [k \in 1..Len(Patterns) |-> Patterns[f[k]]]
        m == matchRoute(InsertAll(<<createTrieRoot>>, ps, 1), path)
    IN  IF m.found THEN [found |-> TRUE, pattern |-> ps[m.route], params |-> m.params]
        ELSE [found |-> FALSE, pattern |-> <<>>, params |-> <<>>]

\* C37: for routes with pairwise different patterns, the route selected
\* for a path and the parameters extracted are the same for every order
\* of registration.
OrderIndependent ==
    (lastPath # NoPath /\ DistinctPatterns) =>
        \A f \in Orders :
            Selected(f, lastPath) =
                [found |-> result.found,
                 pattern |-> IF result.found THEN Patterns[result.route] ELSE <<>>,
                 params |-> result.params]

\* C38: the parameters delivered for a path resolved to a route are those
\* delivered when the route is the only one of the trie and the path
\* resolves to it.
ParamsIndependentOfSiblings ==
    (lastPath # NoPath /\ result.found) =>
        LET alone == matchRoute(insertRoute(<<createTrieRoot>>,
                                            Patterns[result.route], 1), lastPath)
        IN  alone.found => alone.params = result.params

----------------------------------------------------------------------------
(* Specification SpecFetch: a router is configured (use, get, head), then  *)
(* one request is dispatched through the composed chain.                   *)

MaxFetchRoutes == 1

FetchPattern == <<"/", "u">>

FetchPaths == { <<"/", "u">>, <<"/", "x">> }

\* PROPFIND is a method outside httpMethods
FetchMethods == {"GET", "HEAD", "POST", "PROPFIND"}

FetchInit ==
    /\ InitRouter
    /\ lastPath = NoPath
    /\ result = NoMatch
    /\ JarIdle
    /\ config \in [onError : ErrorKinds, onNotFound : NotFoundKinds]
    /\ RequestIdle
    /\ LimitIdle
    /\ StaticIdle
    /\ GroupIdle

\* router.get(path, handler), router.head(path, handler)
Route(method, handler) ==
    /\ pc = "setup"
    /\ Len(routes["GET"]) + Len(routes["HEAD"]) < MaxFetchRoutes
    /\ on(method, FetchPattern, handler)
    /\ UNCHANGED <<lastPath, result, fetchVars, sideVars, idVars>>

FetchNext ==
    \/ \E mw \in MwKinds : use(mw)
    \/ \E m \in {"GET", "HEAD"} : \E h \in HandlerKinds : Route(m, h)
    \/ \E m \in FetchMethods : \E p \in FetchPaths : FetchStart(m, p)
    \/ DispatchMiddleware
    \/ DispatchHandler
    \/ Return
    \/ Finish

SpecFetch == FetchInit /\ [][FetchNext]_vars

----------------------------------------------------------------------------
(* Claims on dispatch and on the composed chain.                           *)

n == Len(middlewares)

Enter(k) == [ev |-> "enter", mw |-> k]
Next(k) == [ev |-> "next", mw |-> k]
IsTerminal(e) == e.ev \in {"handler", "notfound"}

\* C2 as stated: an HttpError thrown during fetch gives a response with the
\* error's status, the JSON body {error: message} and every header carried
\* by the error, with the error's value.
HttpErrorBecomesJsonWithAllHeaders ==
    (pc = "done" /\ thrown.kind = "http") =>
        /\ reply.kind = "resp"
        /\ reply.status = thrown.status
        /\ reply.body = JsonBody([error |-> thrown.message])
        /\ \A h \in DOMAIN thrown.headers :
              h \in DOMAIN reply.headers /\ reply.headers[h] = thrown.headers[h]

\* the headers ctx.json sets itself: the JSON content type and the headers
\* set on the context with ctx.set
HelperHeaders == {"content-type"} \cup DOMAIN ctx.headers

\* C2 amended: an HttpError thrown during fetch gives a response with the
\* error's status, the JSON body {error: message} and every header name
\* carried by the error; the value is the error's, except for a header that
\* ctx.json sets itself (Content-Type, headers set with ctx.set), which keeps
\* the helper's value.
HttpErrorBecomesJson ==
    (pc = "done" /\ thrown.kind = "http") =>
        /\ reply.kind = "resp"
        /\ reply.status = thrown.status
        /\ reply.body = JsonBody([error |-> thrown.message])
        /\ \A h \in DOMAIN thrown.headers :
              /\ h \in DOMAIN reply.headers
              /\ h \notin HelperHeaders => reply.headers[h] = thrown.headers[h]
              /\ h \in DOMAIN ctx.headers => reply.headers[h] = ctx.headers[h]
              /\ h = "content-type" /\ h \notin DOMAIN ctx.headers
                    => reply.headers[h] = "application/json"

\* C2 witness: a 429 with Retry-After: 5 thrown below a middleware comes
\* back as a 429 response with that header
RetryAfterWitness ==
    /\ pc = "done"
    /\ n >= 1
    /\ thrown = TooManyRequestsError("slow down", <<"5">>)
    /\ reply.kind = "resp" /\ reply.status = 429
    /\ "retry-after" \in DOMAIN reply.headers
    /\ reply.headers["retry-after"] = <<"5">>

\* C3: when onError does not throw, fetch resolves to a Response; a thrown
\* value that is not an HttpError, raised at the trie lookup, in a
\* middleware, in the handler or in the not-found handler, is passed to
\* onError exactly once and onError's result is the response (by default a
\* JSON 500 payload).
ErrorsReachOnErrorOnce ==
    pc = "done" =>
        /\ config.onError # "throws" => reply.kind = "resp"
        /\ thrown.kind = "error" =>
              /\ errCalls = <<thrown>>
              /\ reply = OnError(config.onError, thrown, ctx)
              /\ config.onError = "default" =>
                    /\ reply.status = 500
                    /\ reply.body = JsonBody([error |-> "Internal Server Error",
                                              message |-> thrown.message])

\* C3 witness: a plain Error thrown below a middleware reached the default
\* onError once and the response is the 500 payload
OnErrorWitness ==
    /\ pc = "done"
    /\ n >= 1
    /\ request.method = "GET"
    /\ thrown = PlainError("boom")
    /\ errCalls = <<thrown>>
    /\ reply.kind = "resp" /\ reply.status = 500

\* no route matches the method and the path of the request
NoRouteMatches ==
    \/ ~IsHttpMethod(LookupMethod(request.method))
    \/ ~matchRoute(tries[LookupMethod(request.method)], request.pathname).found

\* every middleware of the router calls next() once and returns its result
AllCallNextOnce ==
    \A k \in 1..n : middlewares[k] \in {"pass", "header", "set"}

RECURSIVE ChainFrom(_)
\* the entries and next() calls of middleware k..n in order
ChainFrom(k) ==
    IF k > n THEN <<>> ELSE <<Enter(k), Next(k)>> \o ChainFrom(k + 1)

\* C4: when no route matches, the not-found handler runs as the terminal
\* handler inside every middleware registered with use(), in order, and the
\* default response is 404 with the JSON body {error: "Not Found", path}.
NotFoundRunsInsideChain ==
    (pc = "done" /\ NoRouteMatches /\ AllCallNextOnce) =>
        /\ trace = ChainFrom(1) \o <<[ev |-> "notfound", mw |-> 0]>>
        /\ config.onNotFound = "default" =>
              /\ reply.kind = "resp"
              /\ reply.status = 404
              /\ reply.body = JsonBody([error |-> "Not Found",
                                        path |-> request.pathname])

\* C5: middleware 1 runs first; middleware k+1 is entered only by a next()
\* of middleware k; the terminal handler runs only after every middleware
\* has called next(); a middleware returning without next() hands its
\* response to the enclosing next().
OnionOrder ==
    /\ (trace # <<>> /\ n >= 1) => trace[1] = Enter(1)
    /\ \A t \in 1..Len(trace) :
          /\ (trace[t].ev = "enter" /\ trace[t].mw > 1) =>
                trace[t - 1] = Next(trace[t].mw - 1)
          /\ IsTerminal(trace[t]) =>
                \A k \in 1..n : \E u \in 1..(t - 1) : trace[u] = Next(k)
    /\ (pc = "run" /\ mode = "ret" /\ stack # <<>> /\ Len(trace) >= 2
          /\ trace[Len(trace)].ev = "enter"
          /\ middlewares[trace[Len(trace)].mw] = "short"
          /\ trace[Len(trace) - 1] = Next(stack[Len(stack)].mw)) =>
            val = CtxText(ctx, "short")

\* the middlewares after k all call next() once
RestCallsNextOnce(k) ==
    \A j \in (k + 1)..n : middlewares[j] \in {"pass", "header", "set"}

\* C6: every repeated next() of middleware k replays the remainder of the
\* chain: middleware k+1, ..., middleware n and then the terminal handler.
NextReplaysRemainder ==
    pc = "done" =>
        \A t \in 1..Len(trace) :
            (/\ trace[t].ev = "next"
             /\ \E u \in 1..(t - 1) : trace[u] = trace[t]
             /\ RestCallsNextOnce(trace[t].mw)
             /\ thrown = NoVal) =>
                LET k == trace[t].mw
                    len == 2 * (n - k) + 1
                IN  /\ Len(trace) >= t + len
                    /\ SubSeq(trace, t + 1, t + len - 1) = ChainFrom(k + 1)
                    /\ IsTerminal(trace[t + len])

\* the request is a HEAD request answered from the GET trie
HeadFallsBack == request.method = "HEAD" /\ routes["HEAD"] = <<>>

\* C18: without HEAD routes a HEAD request is matched against the GET trie,
\* and the response fetch returns for it, whether the request matched, did
\* not match or ended in a thrown HttpError, has no body.
HeadResponseHasNoBody ==
    (pc = "done" /\ HeadFallsBack /\ reply.kind = "resp"
        /\ (thrown = NoVal \/ thrown.kind = "http")) =>
        /\ result = matchRoute(tries["GET"], request.pathname)
        /\ reply.body = NullBody

\* C19: the handler of a route runs only for a request of the route's own
\* method (HEAD counting as GET when no HEAD route exists), and a request
\* whose path is registered under other methods only ends in the not-found
\* handler, with status 404 by default.
MethodIsolation ==
    pc = "done" =>
        LET own == IF HeadFallsBack THEN "GET" ELSE request.method
            here == /\ own \in MethodSet
                    /\ matchRoute(tries[own], request.pathname).found
            elsewhere == \E m \in MethodSet \ {own} :
                            matchRoute(tries[m], request.pathname).found
        IN  /\ (\E t \in 1..Len(trace) : trace[t].ev = "handler") =>
                  /\ here
                  /\ routes[own][result.route].method = own
            /\ (elsewhere /\ ~here /\ AllCallNextOnce) =>
                  /\ trace # <<>>
                  /\ trace[Len(trace)].ev = "notfound"
                  /\ config.onNotFound = "default" =>
                        reply.kind = "resp" /\ reply.status = 404

\* C39: in every dispatch, matched, unmatched or faulted, the Context
\* handed to middleware, handler, not-found handler and error handler has
\* a params value that is a map (empty when nothing was extracted).
ParamsAlwaysMap ==
    pc \in {"run", "done"} => ctx.hasParams

\* C40: a request no route matches, its method being one of the seven
\* supported ones or not, terminates as Unmatched: the not-found handler
\* runs below the middleware and nothing is passed to onError unless the
\* not-found handler itself throws.
UnmatchedRunsNotFound ==
    (pc = "done" /\ NoRouteMatches /\ AllCallNextOnce) =>
        /\ trace # <<>>
        /\ trace[Len(trace)].ev = "notfound"
        /\ config.onNotFound = "default" => errCalls = <<>> /\ thrown = NoVal

----------------------------------------------------------------------------
(* Specification SpecCompose: middleware and a handler are registered,     *)
(* then compose(middlewares, handler) is called on a context.              *)

ComposeNext ==
    \/ \E mw \in MwKinds : use(mw)
    \/ \E h \in HandlerKinds : Route("GET", h)
    \/ ComposeStart
    \/ DispatchMiddleware
    \/ ComposeHandler
    \/ Return
    \/ ComposeFinish

SpecCompose == FetchInit /\ [][ComposeNext]_vars

\* every middleware of the list returns what its last next() resolved to
AllReturnNext ==
    \A k \in 1..Len(middlewares) : middlewares[k] \in {"pass", "header", "set", "twice"}

\* C25: for every middleware list, the empty one included, the callable
\* compose returns resolves to an empty 200 response when the terminal
\* handler returns no value.
VoidHandlerGivesEmptyOk ==
    (pc = "composed" /\ routes["GET"][1].handler = "void" /\ AllReturnNext) =>
        /\ reply.kind = "resp"
        /\ reply.status = 200
        /\ reply.body = TextBody("")

----------------------------------------------------------------------------
(* Specification SpecRequestIds: one router serves several requests, with  *)
(* and without an X-Request-ID header.                                     *)

\* the requests one router serves
MaxFetches == 3

\* the X-Request-ID headers of the requests
IdHeaders == {NoRequestId, <<"a", "b", "c">>, <<"1">>}

\* the caller of fetch sends its next request once the last one is answered
FetchAgain ==
    /\ pc = "done"
    /\ Len(issued) < MaxFetches
    /\ pc' = "setup"
    /\ request' = [method |-> "", pathname |-> <<>>]
    /\ inbound' = NoRequestId
    /\ ctx' = NoCtx
    /\ idx' = 0
    /\ stack' = <<>>
    /\ mode' = "idle"
    /\ val' = NoVal
    /\ trace' = <<>>
    /\ thrown' = NoVal
    /\ errCalls' = <<>>
    /\ reply' = NoVal
    /\ UNCHANGED <<trieVars, sideVars, middlewares, config, requestId, issued,
                   parked>>

RequestIdNext ==
    \/ \E h \in HandlerKinds : Route("GET", h)
    \/ \E p \in FetchPaths : \E h \in IdHeaders : FetchRequest("GET", p, h)
    \/ DispatchHandler
    \/ Finish
    \/ FetchAgain

SpecRequestIds == FetchInit /\ [][RequestIdNext]_vars

\* the identifiers of the requests served before the current one
EarlierIds == {issued[k].requestId : k \in 1..(Len(issued) - 1)}

\* C26: the requestId of the Context of a dispatched request is the value
\* of the request's X-Request-ID header when the request carries one, and
\* an identifier no earlier request of the router had otherwise
RequestIdFromHeader ==
    pc \in {"run", "done"} =>
        IF inbound # NoRequestId
        THEN ctx.requestId = inbound
        ELSE ctx.requestId \notin EarlierIds

----------------------------------------------------------------------------
(* Specification SpecLimit: one rateLimit instance serves requests of two  *)
(* keys while time passes and the sweep timer fires.                       *)

MaxRequests == 4
MaxNow == 2500

\* the steps of the clock, in milliseconds
LimitTicks == {500}

LimitWindows == {1000, 1500}
LimitMaxima == {0, 1, 2}
LimitHandlers == {"none", "custom", "void"}

LimitInit ==
    /\ InitRouter
    /\ lastPath = NoPath
    /\ result = NoMatch
    /\ JarIdle
    /\ FetchIdle
    /\ StaticIdle
    /\ GroupIdle
    /\ \E w \in LimitWindows : \E m \in LimitMaxima : \E h \in LimitHandlers :
          rateLimit(w, m, h)
    /\ limiter2 = NoLimiter

\* a request with the given key reaches the limiter
LimitRequest(key) ==
    /\ lastOut.seq < MaxRequests
    /\ Limit(key)
    /\ UNCHANGED <<trieVars, fetchVars, staticVars, groupVars, idVars, jarVars>>

\* the chain below the limiter settles for one admitted request
Settle ==
    /\ inflight > 0
    /\ inflight' = inflight - 1
    /\ UNCHANGED <<limiter, requests, now, window, lastOut, limiter2>>
    /\ UNCHANGED <<trieVars, fetchVars, staticVars, groupVars, idVars, jarVars>>

\* time passes; Date.now() does not go back
Tick(ms) ==
    /\ now + ms <= MaxNow
    /\ now' = now + ms
    /\ UNCHANGED <<limiter, requests, inflight, window, lastOut, limiter2>>
    /\ UNCHANGED <<trieVars, fetchVars, staticVars, groupVars, idVars, jarVars>>

LimitSweep == Sweep /\ UNCHANGED <<trieVars, fetchVars, staticVars, groupVars, idVars, jarVars>>

LimitCleanup == cleanup /\ UNCHANGED <<trieVars, fetchVars, staticVars, groupVars, idVars, jarVars>>

LimitNext ==
    \/ \E key \in LimitKeys : LimitRequest(key)
    \/ Settle
    \/ \E ms \in LimitTicks : Tick(ms)
    \/ LimitSweep
    \/ LimitCleanup

SpecLimit == LimitInit /\ [][LimitNext]_vars

----------------------------------------------------------------------------
(* Claims on the rate limiter.                                             *)

\* C7: in one window of a key at most max requests reach next(); a request
\* is admitted exactly when fewer than max requests of its window were
\* admitted before it, and every other request gets the custom handler's
\* response or a thrown 429 and does not call next().
AtMostMaxPerWindow ==
    /\ \A k \in LimitKeys : window[k].admitted <= limiter.max
    /\ lastOut.kind # "none" =>
          /\ (lastOut.kind = "next") <=> (lastOut.before.admitted < limiter.max)
          /\ lastOut.kind = "custom" =>
                limiter.handler = "custom" /\ lastOut.value.kind = "resp"
          /\ lastOut.kind = "throw" =>
                /\ limiter.handler # "custom"
                /\ lastOut.value.kind = "http"
                /\ lastOut.value.status = 429

\* C7 witness: with max = 2, the third request of a window is throttled
\* while an admitted request is still in flight
ThrottledWitness ==
    /\ limiter.max = 2
    /\ lastOut.kind = "throw"
    /\ lastOut.before.admitted = 2
    /\ window[lastOut.key].admitted = 2
    /\ inflight >= 1

\* C8: with max >= 1, the first request of a throttled key that arrives
\* after the reset time of its window calls next() and leaves the entry
\* with count 1 and reset time now + windowMs.
ReadmittedAfterWindow ==
    (/\ lastOut.kind # "none"
     /\ limiter.max >= 1
     /\ lastOut.reopened
     /\ lastOut.wasThrottled) =>
        /\ lastOut.kind = "next"
        /\ lastOut.entry = [present |-> TRUE, count |-> 1,
                            reset |-> lastOut.at + limiter.windowMs]

\* C8 witness: a throttled key is admitted again after its window
ReadmittedWitness ==
    /\ lastOut.kind = "next"
    /\ lastOut.reopened
    /\ lastOut.wasThrottled
    /\ lastOut.entry.count = 1

\* C9: the 429 of the default path carries a Retry-After header holding the
\* integer ceil((resetTime - now) / 1000), between 0 and ceil(windowMs / 1000),
\* and the response fetch builds from it carries the same header.
RetryAfterIsCeiling ==
    lastOut.kind = "throw" =>
        /\ "retry-after" \in DOMAIN lastOut.value.headers
        /\ IsNumeral(lastOut.value.headers["retry-after"])
        /\ LET v == NumeralValue(lastOut.value.headers["retry-after"])
               left == lastOut.before.reset - lastOut.at
           IN  /\ 1000 * (v - 1) < left
               /\ left <= 1000 * v
               /\ 0 <= v
               /\ 1000 * (v - 1) < limiter.windowMs
        /\ LET r == InnerCatch(lastOut.value, NoCtx).reply
           IN  /\ r.status = 429
               /\ "retry-after" \in DOMAIN r.headers
               /\ r.headers["retry-after"] = lastOut.value.headers["retry-after"]

\* C9 witness: half a second before the reset time the header is "1"
RetryAfterRoundsUpWitness ==
    /\ lastOut.kind = "throw"
    /\ lastOut.before.reset - lastOut.at = 500
    /\ lastOut.value.headers["retry-after"] = <<"1">>

\* the entry the Map would hold for the key if no sweep ever ran: it is
\* created and counted by requests alone
UnsweptEntry(key) ==
    [present |-> window[key].open, count |-> window[key].count,
     reset |-> window[key].reset]

\* what the middleware decides now for a request that finds the entry data:
\* whether it calls next(), and the entry it leaves
Decision(data) ==
    LET fresh == ~data.present \/ now > data.reset
        count == IF fresh THEN 0 ELSE data.count
    IN  [admit |-> count + 1 <= limiter.max,
         count |-> count + 1,
         reset |-> IF fresh THEN now + limiter.windowMs ELSE data.reset]

\* a request of any key is decided now as it would be without the sweep
SweepInvisible ==
    \A key \in LimitKeys : Decision(requests[key]) = Decision(UnsweptEntry(key))

\* a step of the sweep removes exactly the entries whose window has expired
SweepStepExact ==
    limiter'.due # limiter.due =>
        \A key \in LimitKeys :
            requests'[key] =
                IF requests[key].present /\ now > requests[key].reset
                THEN NoEntry ELSE requests[key]

\* after cleanup() no sweep runs: the Map changes through requests only
NoSweepAfterCleanup ==
    ~limiter.timer =>
        /\ limiter' = limiter
        /\ requests' # requests => lastOut'.seq = lastOut.seq + 1

\* C32: each tick of the sweep removes exactly the entries whose window
\* has expired; every request is admitted or throttled as it would be with
\* no sweep; after cleanup() no sweep runs and the limit is still enforced.
SweepNeverChangesAdmission ==
    /\ []SweepInvisible
    /\ [][SweepStepExact /\ NoSweepAfterCleanup]_vars

\* C32 witness: the sweep removed the expired entry of a key, the timer was
\* stopped, and the last request, of another key, was throttled
SweptAndStoppedWitness ==
    /\ ~limiter.timer
    /\ lastOut.kind = "throw"
    /\ \E key \in LimitKeys \ {lastOut.key} :
          window[key].open /\ ~requests[key].present

\* the number of requests of the key that reached next() in the interval
\* of length windowMs that ends with the j-th of them
AdmittedWithin(key, j) ==
    LET ts == window[key].times
    IN  Cardinality({i \in 1..j : ts[i] > ts[j] - limiter.windowMs})

\* C33 as stated: for every key and every interval of length windowMs,
\* aligned with the entry's window or not, at most max requests of the key
\* reach next().
RollingWindowBound ==
    \A key \in LimitKeys :
        \A j \in 1..Len(window[key].times) :
            AdmittedWithin(key, j) <= limiter.max

\* C33 amended: at most max requests of a key reach next() between the
\* request that opens a window of its entry and the window's reset time;
\* an interval of length windowMs that is not aligned with a window can
\* hold the end of one window and the start of the next, and at most
\* 2 * max - 1 requests of the key reach next() in it (none when max is 0).
FixedWindowBound ==
    \A key \in LimitKeys :
        LET ts == window[key].times IN
        /\ window[key].open =>
              Cardinality({i \in 1..Len(ts) :
                              ts[i] >= window[key].reset - limiter.windowMs})
                  <= limiter.max
        /\ \A j \in 1..Len(ts) :
              AdmittedWithin(key, j)
                  <= IF limiter.max = 0 THEN 0 ELSE 2 * limiter.max - 1

\* C33 witness: with max = 2, three requests of a key reached next() within
\* windowMs, the last of one window and the first two of the next
BoundaryBurstWitness ==
    /\ limiter.max = 2
    /\ \E key \in LimitKeys :
          /\ Len(window[key].times) >= 3
          /\ AdmittedWithin(key, Len(window[key].times)) = 3
          /\ window[key].admitted = 2

----------------------------------------------------------------------------
(* Specification SpecLimiters: two rateLimit instances with options of     *)
(* their own serve requests of the same keys while time passes.            *)

\* the requests each of the two instances serves
MaxFirstRequests == 3
MaxSecondRequests == 2

LimitersInit ==
    /\ InitRouter
    /\ lastPath = NoPath
    /\ result = NoMatch
    /\ JarIdle
    /\ FetchIdle
    /\ StaticIdle
    /\ GroupIdle
    /\ rateLimit(1000, 1, "none")
    /\ \E m \in {0, 1} : limiter2 = NewLimiter(1500, m)

\* a request with the given key reaches the first instance
FirstRequest(key) ==
    /\ lastOut.seq < MaxFirstRequests
    /\ Limit(key)
    /\ UNCHANGED <<trieVars, fetchVars, staticVars, groupVars, idVars, jarVars>>

\* a request with the given key reaches the second instance
SecondRequest(key) ==
    /\ limiter2.seq < MaxSecondRequests
    /\ SecondLimit(key)
    /\ UNCHANGED <<trieVars, fetchVars, staticVars, groupVars, idVars, jarVars>>

LimitersSweep ==
    SecondSweep /\ UNCHANGED <<trieVars, fetchVars, staticVars, groupVars, idVars, jarVars>>

LimitersNext ==
    \/ \E key \in LimitKeys : FirstRequest(key)
    \/ \E key \in LimitKeys : SecondRequest(key)
    \/ \E ms \in LimitTicks : Tick(ms)
    \/ LimitSweep
    \/ LimitersSweep

SpecLimiters == LimitersInit /\ [][LimitersNext]_vars

\* the entry of a key, and so the decision and the Retry-After value of its
\* next request, is the one the key's own requests on this instance made
OwnRequestsDecide ==
    \A key \in LimitKeys :
        /\ Decision(requests[key]) = Decision(UnsweptEntry(key))
        /\ requests[key].present =>
              /\ requests[key].count = window[key].count
              /\ requests[key].reset = window[key].reset

\* a request of one key on one instance leaves the entries of the other
\* keys and everything of the other instance as they are
OneEntryPerRequest ==
    /\ lastOut'.seq # lastOut.seq =>
          /\ limiter2' = limiter2
          /\ \A key \in LimitKeys \ {lastOut'.key} :
                requests'[key] = requests[key] /\ window'[key] = window[key]
    /\ limiter2'.seq # limiter2.seq =>
          /\ requests' = requests /\ window' = window /\ lastOut' = lastOut
          /\ \A key \in LimitKeys \ {limiter2'.out.key} :
                limiter2'.requests[key] = limiter2.requests[key]

\* C34: rate-limit keys are independent: requests and throttling of one
\* key never change the entry, the admission decisions or the Retry-After
\* values of another key of the instance, and two instances never share
\* entries.
KeysAndInstancesIndependent ==
    /\ []OwnRequestsDecide
    /\ [][OneEntryPerRequest]_vars

\* C34 witness: a key is throttled by the first instance and admitted by
\* the second at the same time, while the other key has an entry of its own
TwoInstancesWitness ==
    /\ lastOut.kind = "throw"
    /\ limiter2.out.kind = "next"
    /\ limiter2.out.key = lastOut.key
    /\ limiter2.requests[lastOut.key].count = 1
    /\ requests[lastOut.key].count > limiter.max
    /\ \E key \in LimitKeys \ {lastOut.key} : requests[key].present

----------------------------------------------------------------------------
(* Specification SpecStatic: one staticFiles middleware serves a request   *)
(* whose raw path is any sequence of a few path tokens; the client then    *)
(* repeats the request with the ETag it received.                          *)

MaxTokens == 4
MaxRevalidations == 2

\* the pieces raw request paths are made of
PathTokens ==
    { <<"/">>, <<".">>, <<"p">>, <<"s">>, <<"%", "2", "F">>, <<"%", "2", "E">>,
      <<"%">> }

RECURSIVE Flatten(_)
Flatten(tokens) ==
    IF tokens = <<>> THEN <<>> ELSE Head(tokens) \o Flatten(Tail(tokens))

\* the raw request paths: "/" followed by at most MaxTokens tokens
StaticPaths ==
    { <<"/">> \o Flatten(ts) :
        ts \in UNION { [1..k -> PathTokens] : k \in 0..MaxTokens } }

StaticMethods == {"GET", "HEAD", "POST"}

\* If-None-Match: absent, or the ETag of /p/s
StaticEtags == { <<>>, hashFile(readFile(<<"/", "p", "/", "s">>)) }

\* Range: absent, bytes=0-0, bytes=1-, bytes=3-3, bytes=1-0 and a
\* malformed one
StaticRanges ==
    { <<>>,
      <<"b", "y", "t", "e", "s", "=", "0", "-", "0">>,
      <<"b", "y", "t", "e", "s", "=", "1", "-">>,
      <<"b", "y", "t", "e", "s", "=", "3", "-", "3">>,
      <<"b", "y", "t", "e", "s", "=", "1", "-", "0">>,
      <<"b", "y", "t", "e", "s">> }

\* staticFiles("p", { index: "i" }),
\* staticFiles("p", { index: "i", dotfiles: "allow" }) and
\* staticFiles("p", { index: "i", etag: false, maxAge: 60, immutable: true,
\*                    dotfiles: "deny" })
StaticOptions ==
    { [index |-> <<"i">>, etag |-> TRUE, maxAge |-> 0, immutable |-> FALSE,
       dotfiles |-> "ignore"],
      [index |-> <<"i">>, etag |-> TRUE, maxAge |-> 0, immutable |-> FALSE,
       dotfiles |-> "allow"],
      [index |-> <<"i">>, etag |-> FALSE, maxAge |-> 60, immutable |-> TRUE,
       dotfiles |-> "deny"] }

StaticInit ==
    /\ InitRouter
    /\ lastPath = NoPath
    /\ result = NoMatch
    /\ JarIdle
    /\ FetchIdle
    /\ LimitIdle
    /\ GroupIdle
    /\ options \in StaticOptions
    /\ srequest = NoRequest
    /\ served = NotServed
    /\ sreply = NoVal
    /\ previous = <<>>

\* a request reaches the middleware through fetch
StaticRequest(method, path, ifNoneMatch, range) ==
    /\ served.kind = "none"
    /\ srequest' = [method |-> method, path |-> path,
                    ifNoneMatch |-> ifNoneMatch, range |-> range]
    /\ served' = staticFiles(options, srequest')
    /\ sreply' = StaticFetch(srequest', served')
    /\ UNCHANGED <<options, previous, trieVars, fetchVars, limitVars, groupVars, idVars, jarVars>>

\* the client repeats its request with If-None-Match set to the ETag of the
\* response it received
StaticRevalidate ==
    /\ served.kind = "resp"
    /\ "etag" \in DOMAIN served.value.headers
    /\ Len(previous) < MaxRevalidations
    /\ srequest' = [srequest EXCEPT !.ifNoneMatch = served.value.headers["etag"]]
    /\ served' = staticFiles(options, srequest')
    /\ sreply' = StaticFetch(srequest', served')
    /\ previous' = Append(previous, served)
    /\ UNCHANGED <<options, trieVars, fetchVars, limitVars, groupVars, idVars, jarVars>>

StaticNext ==
    \/ /\ served.kind = "none"
       /\ \E method \in StaticMethods : \E path \in StaticPaths :
          \E ifNoneMatch \in StaticEtags : \E range \in StaticRanges :
             StaticRequest(method, path, ifNoneMatch, range)
    \/ StaticRevalidate

SpecStatic == StaticInit /\ [][StaticNext]_vars

----------------------------------------------------------------------------
(* Claims on the static file middleware.                                   *)

\* the path names the root directory or something below it
InsideRoot(path) ==
    LET parts == Split(path)
        root == Split(StaticRoot)
    IN  Len(parts) >= Len(root) /\ SubSeq(parts, 1, Len(root)) = root

\* C10: for every request path, staticFiles answers from a file only if the
\* file's resolved absolute path lies inside the root directory tree, and a
\* request that resolves outside the root is passed to next().
ServesOnlyInsideRoot ==
    /\ served.kind = "resp" => InsideRoot(served.file)
    /\ (served.resolved # <<>> /\ ~InsideRoot(served.resolved)) =>
          served.kind = "next"

\* the middleware read a file for the request and did not answer 304
FileRead ==
    /\ served.file # <<>>
    /\ ~(served.kind = "resp" /\ served.value.status = 304)

\* the size of the file read for the request
FileSize == Len(readFile(served.file))

\* the Range header bytes=a-b
RangeOf(a, b) == RangeUnit \o NumberToString(a) \o <<"-">> \o NumberToString(b)

\* the Range header bytes=a-
OpenRangeOf(a) == RangeUnit \o NumberToString(a) \o <<"-">>

\* the Range header asks for the bytes a..b of a file of the given size
AsksFor(header, a, b, size) ==
    /\ 0 <= a /\ a <= b /\ b < size
    /\ header = RangeOf(a, b) \/ (b = size - 1 /\ header = OpenRangeOf(a))

\* the value of Content-Range in a 206 for the bytes a..b of size bytes
ContentRangeOf(a, b, size) ==
    <<"bytes ">> \o NumberToString(a) \o <<"-">> \o NumberToString(b)
       \o <<"/">> \o NumberToString(size)

\* C11: when staticFiles reads an existing file of size S for a request whose
\* Range header is not a satisfiable bytes=start-end range, fetch returns
\* 416 with Content-Range: bytes */S.
UnsatisfiableRangeGives416 ==
    (/\ FileRead
     /\ srequest.range # <<>>
     /\ \A a, b \in 0..(FileSize - 1) : ~AsksFor(srequest.range, a, b, FileSize)) =>
        /\ sreply.kind = "resp"
        /\ sreply.status = 416
        /\ "content-range" \in DOMAIN sreply.headers
        /\ sreply.headers["content-range"]
              = <<"bytes */">> \o NumberToString(FileSize)

\* C12: when staticFiles reads an existing file of size S for a request with
\* Range: bytes=a-b, 0 <= a <= b < S (b = S-1 when omitted), its response is
\* 206 with Content-Range: bytes a-b/S, Accept-Ranges: bytes and exactly the
\* b-a+1 bytes at the offsets a..b of the file as body.
RangeGives206 ==
    FileRead =>
        \A a, b \in 0..(FileSize - 1) :
            AsksFor(srequest.range, a, b, FileSize) =>
                /\ served.kind = "resp"
                /\ served.value.status = 206
                /\ "content-range" \in DOMAIN served.value.headers
                /\ served.value.headers["content-range"]
                      = ContentRangeOf(a, b, FileSize)
                /\ "accept-ranges" \in DOMAIN served.value.headers
                /\ served.value.headers["accept-ranges"] = "bytes"
                /\ served.value.body.kind = "text"
                /\ Len(served.value.body.text) = b - a + 1
                /\ \A i \in 1..(b - a + 1) :
                      served.value.body.text[i] = readFile(served.file)[a + i]

\* C12 witness: bytes=1- on the three bytes of /p/s gives the last two
OpenRangeWitness ==
    /\ served.kind = "resp"
    /\ served.file = <<"/", "p", "/", "s">>
    /\ srequest.range = OpenRangeOf(1)
    /\ served.value.status = 206
    /\ served.value.body = TextBody(<<"b", "c">>)

\* C13: with ETag enabled, a request for a static file whose If-None-Match
\* is the ETag of an earlier 200 response for the same file gets 304 with
\* no body and the same ETag, however often it is repeated.
ConditionalGetGives304 ==
    (previous # <<>> /\ previous[1].value.status = 200) =>
        /\ served.kind = "resp"
        /\ served.value.status = 304
        /\ served.value.body = NullBody
        /\ served.file = previous[1].file
        /\ served.value.headers["etag"] = previous[1].value.headers["etag"]
        /\ sreply = served.value

\* C13 witness: a GET answered with 200, then twice with 304
Repeated304Witness ==
    /\ srequest.method = "GET"
    /\ Len(previous) = 2
    /\ previous[1].value.status = 200
    /\ previous[2].value.status = 304
    /\ served.value.status = 304

\* the resolved path has a part below the root that starts with a dot
DotPath ==
    \E i \in (Len(StaticRoot) + 1)..(Len(served.resolved) - 1) :
        served.resolved[i] = "/" /\ served.resolved[i + 1] = "."

PassThroughCallsNextOnce ==
    served.kind # "none" =>
        IF served.kind = "resp" \/ (served.kind = "throw" /\ served.value.kind = "http")
        THEN served.nexts = 0
        ELSE /\ served.kind = "next"
             /\ served.nexts = 1
             /\ sreply = StripHead(srequest.method,
                                   DefaultNotFound(NoCtx, UrlPathname(srequest.path)))

\* the terminal handlers run during the request
TerminalRuns == {t \in 1..Len(trace) : IsTerminal(trace[t])}

\* C31: a thrown HttpError is converted to a response exactly once, at the
\* dispatch boundary: it passes as a rejection through the enclosing
\* middleware, no built-in middleware swallows it, it is never passed to
\* onError, and the chain is not run again. For a request through the
\* composed chain: the response is the conversion of the error by fetch,
\* onError is not called and the terminal handler ran at most once; for a
\* request through staticFiles: an HttpError thrown in the middleware leaves
\* it as a rejection, without a call of next(), and fetch converts it.
HttpErrorCaughtOnceAtBoundary ==
    /\ (pc = "done" /\ thrown.kind = "http") =>
          /\ errCalls = <<>>
          /\ reply = InnerCatch(thrown, ctx).reply
          /\ Cardinality(TerminalRuns) <= 1
    /\ (served.kind # "none" /\ served.value.kind = "http") =>
          /\ served.kind = "throw"
          /\ served.nexts = 0
          /\ sreply = InnerCatch(served.value, NoCtx).reply

----------------------------------------------------------------------------
(* Specification SpecGroup: routes and middleware are registered on a      *)
(* router and in nested groups; once the router is configured, requests    *)
(* are dispatched.                                                         *)

MaxGroups == 2
MaxGroupRoutes == 2
MaxGroupUses == 3

GroupPrefixes == { <<"/", "a">>, <<"/", "b">> }

GroupLocals == { <<"/", "u">> }

GroupPaths ==
    { <<"/", "u">>, <<"/", "a", "/", "u">>, <<"/", "b", "/", "u">>,
      <<"/", "a", "/", "a", "/", "u">>, <<"/", "a", "/", "b", "/", "u">>,
      <<"/", "b", "/", "a", "/", "u">>, <<"/", "b", "/", "b", "/", "u">>,
      <<"/", "a", "/", "a", "/", "b", "/", "u">>,
      <<"/", "a", "/", "b", "/", "a", "/", "b", "/", "u">> }

\* the state of the fetch in progress, unused while groups are configured
fetchRest == <<config, pc, request, ctx, idx, stack, mode, val, trace, thrown,
               errCalls, reply>>

GroupInit ==
    /\ InitRouter
    /\ lastPath = NoPath
    /\ result = NoMatch
    /\ JarIdle
    /\ FetchIdle
    /\ LimitIdle
    /\ StaticIdle
    /\ GroupIdle

RECURSIVE CountUses(_)
\* the number of middleware registered in the groups gs
CountUses(gs) ==
    IF gs = <<>> THEN 0 ELSE Len(gs[1].mws) + CountUses(Tail(gs))

\* the number of calls of on() and all(), and of middleware registered, so
\* far, anywhere
GroupRouteCount ==
    IF registered = <<>> THEN 0 ELSE registered[Len(registered)].metadata.tag

GroupUseCount == Len(middlewares) + CountUses(ghist)

\* router.group(prefix, configure) up to the call of configure: a
\* sub-router with the prefix config.prefix + prefix
GroupOpen(prefix) ==
    /\ lastPath = NoPath
    /\ Len(ghist) < MaxGroups
    /\ LET id == Len(ghist) + 1
           top == frames[Len(frames)]
           parentPrefix == IF frames = <<>> THEN <<>> ELSE top.prefix
           around == IF frames = <<>> THEN <<>> ELSE ghist[top.id].owners
       IN  /\ frames' = Append(frames, [id |-> id,
                                        prefix |-> GroupPrefix(parentPrefix, prefix),
                                        routes |-> <<>>, middlewares |-> <<>>])
           /\ ghist' = Append(ghist, [prefix |-> prefix,
                                      owners |-> Append(around, id),
                                      mws |-> <<>>])
    /\ gtrace' = <<>>
    /\ UNCHANGED <<trieVars, fetchVars, limitVars, staticVars, idVars, jarVars, registered>>

\* use(mw) on the router being configured; the middleware logs its name and
\* returns next()
GroupUse ==
    /\ lastPath = NoPath
    /\ GroupUseCount < MaxGroupUses
    /\ IF frames = <<>>
       THEN /\ middlewares' = Append(middlewares,
                                     [kind |-> "mw", group |-> 0,
                                      k |-> Len(middlewares) + 1])
            /\ UNCHANGED <<frames, ghist>>
       ELSE LET top == frames[Len(frames)]
                mw == [kind |-> "mw", group |-> top.id,
                       k |-> Len(top.middlewares) + 1]
            IN  /\ frames' = [frames EXCEPT ![Len(frames)].middlewares = Append(@, mw)]
                /\ ghist' = [ghist EXCEPT ![top.id].mws = Append(@, mw)]
                /\ UNCHANGED middlewares
    /\ gtrace' = <<>>
    /\ UNCHANGED <<trieVars, fetchRest, limitVars, staticVars, idVars, jarVars, registered>>

\* the route on(method, path, handler, metadata) builds on the router being
\* configured; owners and local record where and with which path the route
\* was registered, the metadata is the number of the registering call
GroupRoute(method, path) ==
    LET top == frames[Len(frames)]
        prefix == IF frames = <<>> THEN <<>> ELSE top.prefix
        owners == IF frames = <<>> THEN <<>> ELSE ghist[top.id].owners
        h == [kind |-> "handler", method |-> method, owners |-> owners,
              local |-> path]
    IN  [method |-> method, pattern |-> OnPath(prefix, path), handler |-> h,
         owners |-> owners, local |-> path,
         metadata |-> [tag |-> GroupRouteCount + 1]]

\* what allRoutes() is to list for a route
Listed(route) ==
    [method |-> route.method, pattern |-> route.pattern,
     metadata |-> route.metadata]

\* on(method, path, handler, metadata) on the router being configured
GroupOn(method, path) ==
    /\ lastPath = NoPath
    /\ GroupRouteCount < MaxGroupRoutes
    /\ LET route == GroupRoute(method, path)
       IN  /\ registered' = Append(registered, Listed(route))
           /\ IF frames = <<>>
              THEN /\ routes' = [routes EXCEPT ![method] = Append(@, route)]
                   /\ tries' = [tries EXCEPT ![method] =
                                   insertRoute(@, route.pattern, Len(routes[method]) + 1)]
                   /\ UNCHANGED frames
              ELSE /\ frames' = [frames EXCEPT ![Len(frames)].routes = Append(@, route)]
                   /\ UNCHANGED <<tries, routes>>
    /\ gtrace' = <<>>
    /\ UNCHANGED <<lastPath, result, ghist, fetchVars, limitVars, staticVars, idVars, jarVars>>

\* all(path, handler, metadata) on the router being configured: on() once
\* for each method of httpMethods, in order
GroupAll(path) ==
    /\ lastPath = NoPath
    /\ GroupRouteCount < MaxGroupRoutes
    /\ LET each == [k \in 1..Len(httpMethods) |-> GroupRoute(httpMethods[k], path)]
       IN  /\ registered' = registered \o [k \in 1..Len(each) |-> Listed(each[k])]
           /\ IF frames = <<>>
              THEN /\ routes' = [m \in MethodSet |->
                                    Append(routes[m], GroupRoute(m, path))]
                   /\ tries' = [m \in MethodSet |->
                                   insertRoute(tries[m], GroupRoute(m, path).pattern,
                                               Len(routes[m]) + 1)]
                   /\ UNCHANGED frames
              ELSE /\ frames' = [frames EXCEPT ![Len(frames)].routes = @ \o each]
                   /\ UNCHANGED <<tries, routes>>
    /\ gtrace' = <<>>
    /\ UNCHANGED <<lastPath, result, ghist, fetchVars, limitVars, staticVars, idVars, jarVars>>

\* router.group(prefix, configure) after configure returned: the routes of
\* the sub-router are merged into the router that called group
GroupClose ==
    /\ lastPath = NoPath
    /\ frames # <<>>
    /\ LET top == frames[Len(frames)]
           rest == SubSeq(frames, 1, Len(frames) - 1)
       IN  IF rest = <<>>
           THEN /\ routes' = [m \in MethodSet |->
                                 MergeRoutes(routes[m], RoutesOf(top.routes, m),
                                             top.middlewares)]
                /\ tries' = [m \in MethodSet |->
                                MergeTrie(tries[m], RoutesOf(top.routes, m),
                                          Len(routes[m]))]
                /\ frames' = rest
           ELSE /\ frames' = [rest EXCEPT ![Len(rest)].routes =
                                 MergeRoutes(@, top.routes, top.middlewares)]
                /\ UNCHANGED <<tries, routes>>
    /\ gtrace' = <<>>
    /\ UNCHANGED <<lastPath, result, ghist, registered, fetchVars, limitVars,
                   staticVars, idVars, jarVars>>

\* fetch on the outermost router once it is configured: the router's
\* middleware run in order, each calling next() once, then the handler of
\* the matched route, or the not-found handler.  fetch changes nothing of
\* the configuration, so a behaviour holds one request.
GroupFetch(method, pathname) ==
    /\ lastPath = NoPath
    /\ frames = <<>>
    /\ routes["GET"] # <<>>
    /\ LET match == matchRoute(tries[LookupMethod(method)], pathname)
       IN  /\ lastPath' = pathname
           /\ result' = match
           /\ gtrace' = middlewares \o
                 (IF match.found
                  THEN RunHandler(routes[LookupMethod(method)][match.route].handler)
                  ELSE << [kind |-> "notfound"] >>)
    /\ UNCHANGED <<tries, routes, frames, ghist, registered, fetchVars, limitVars,
                   staticVars, idVars, jarVars>>

GroupNext ==
    \/ \E prefix \in GroupPrefixes : GroupOpen(prefix)
    \/ GroupUse
    \/ \E path \in GroupLocals : GroupOn("GET", path)
    \/ GroupClose
    \/ \E path \in GroupPaths : GroupFetch("GET", path)

SpecGroup == GroupInit /\ [][GroupNext]_vars

RECURSIVE GroupChain(_)
\* the middleware of the groups owners, outermost group first, each group's
\* in the order of its use() calls
GroupChain(owners) ==
    IF owners = <<>> THEN <<>>
    ELSE ghist[owners[1]].mws \o GroupChain(Tail(owners))

RECURSIVE PrefixChain(_)
\* p1 + ... + pk for the groups owners, outermost group first
PrefixChain(owners) ==
    IF owners = <<>> THEN <<>>
    ELSE ghist[owners[1]].prefix \o PrefixChain(Tail(owners))

\* the path at which a route registered as local inside the groups owners
\* is to be reachable
FullPath(r) == PrefixChain(r.owners) \o r.local

\* C16: a request runs the router's own middleware first, then the
\* middleware of the groups around the matched route from the outermost to
\* the innermost, then the route handler; no middleware of any other group
\* runs, and an unmatched request runs the router's middleware and the
\* not-found handler only.
GroupMiddlewareScope ==
    lastPath # NoPath =>
        IF result.found
        THEN LET r == routes["GET"][result.route]
             IN  gtrace = middlewares \o GroupChain(r.owners) \o
                          << [kind |-> "handler", method |-> "GET",
                              owners |-> r.owners, local |-> r.local] >>
        ELSE gtrace = middlewares \o << [kind |-> "notfound"] >>

\* a request matched a route of a nested group while the router, the outer
\* group and the nested group each hold a middleware
NestedChainWitness ==
    /\ lastPath # NoPath
    /\ result.found
    /\ middlewares # <<>>
    /\ LET r == routes["GET"][result.route]
       IN  /\ Len(r.owners) = 2
           /\ \A i \in 1..2 : ghist[r.owners[i]].mws # <<>>
           /\ Len(gtrace) = 4

\* C17: a route registered with path p inside groups with prefixes p1..pk
\* is reachable at p1 + ... + pk + p and nowhere else: a request path
\* matches exactly when it is that concatenation for some registered route,
\* and the route selected is one registered for it.
PrefixAppliedOnce ==
    lastPath # NoPath =>
        /\ result.found <=>
               \E i \in 1..Len(routes["GET"]) : FullPath(routes["GET"][i]) = lastPath
        /\ result.found => FullPath(routes["GET"][result.route]) = lastPath

\* a route of a group nested in another group with a different prefix
\* answered at the concatenation of both prefixes and its own path
NestedPrefixWitness ==
    /\ result.found
    /\ lastPath = <<"/", "a", "/", "b", "/", "u">>
    /\ LET r == routes["GET"][result.route]
       IN  /\ Len(r.owners) = 2
           /\ ghist[r.owners[1]].prefix = <<"/", "a">>
           /\ ghist[r.owners[2]].prefix = <<"/", "b">>

----------------------------------------------------------------------------
(* Specification SpecRoutes: routes are registered with on() and all(), on *)
(* the router and in nested groups, under several methods.                 *)

RouteMethods == {"GET", "POST"}

RoutesNext ==
    \/ \E prefix \in GroupPrefixes : GroupOpen(prefix)
    \/ \E m \in RouteMethods : \E path \in GroupLocals : GroupOn(m, path)
    \/ \E path \in GroupLocals : GroupAll(path)
    \/ GroupClose

SpecRoutes == GroupInit /\ [][RoutesNext]_vars

RECURSIVE ByMethod(_)
\* the registrations grouped by method, from method k of httpMethods on,
\* each group in the order of the calls
ByMethod(k) ==
    IF k > Len(httpMethods) THEN <<>>
    ELSE SelectSeq(registered, LAMBDA e : e.method = httpMethods[k])
         \o ByMethod(k + 1)

\* C24: once every group has been merged, allRoutes() lists each
\* registration once, with its method, pattern and metadata, grouped by
\* method in the order of httpMethods and in registration order within a
\* method, also when registrations share a pattern.
AllRoutesRoundTrip ==
    frames = <<>> =>
        /\ Len(allRoutes(routes)) = Len(registered)
        /\ allRoutes(routes) = ByMethod(1)

\* two groups with the same prefix each registered the same path under the
\* same method, and both registrations are listed
SharedNodeWitness ==
    /\ frames = <<>>
    /\ Len(ghist) = 2
    /\ Len(allRoutes(routes)) = 2
    /\ allRoutes(routes)[1].method = allRoutes(routes)[2].method
    /\ allRoutes(routes)[1].pattern = allRoutes(routes)[2].pattern
    /\ \A i \in 1..2 : routes[allRoutes(routes)[1].method][i].owners # <<>>

----------------------------------------------------------------------------
(* Specification SpecJar: set and delete are called on one cookie jar in   *)
(* any order.                                                              *)

JarInit ==
    /\ InitRouter
    /\ lastPath = NoPath
    /\ result = NoMatch
    /\ JarIdle
    /\ FetchIdle
    /\ LimitIdle
    /\ StaticIdle
    /\ GroupIdle

JarNext ==
    \/ \E name \in JarNames : \E v \in JarValues : \E o \in JarOptions :
          CookieJarSet(name, v, o)
    \/ \E name \in JarNames : \E o \in JarOptions : CookieJarDelete(name, o)

SpecJar == JarInit /\ [][JarNext]_vars

\* the outgoing Set-Cookie entries of the cookie called name
NameEntries(name) ==
    SelectSeq(setCookieHeaders, LAMBDA h : StartsWith(h, name \o <<"=">>))

\* the set and delete calls made for the cookie called name
CallsFor(name) == SelectSeq(jarCalls, LAMBDA c : c.name = name)

\* C27: after any sequence of set and delete calls the outgoing
\* Set-Cookie list has at most one entry per cookie name, and that entry
\* is the header the latest set or delete call for the name produced
OneSetCookiePerName ==
    \A name \in JarNames :
        /\ Len(NameEntries(name)) <= 1
        /\ CallsFor(name) # <<>> =>
              NameEntries(name) = <<CallsFor(name)[Len(CallsFor(name))].header>>


----------------------------------------------------------------------------
(* Specification SpecInterleave: one router with a parameter route serves  *)
(* several requests at once. A request is suspended at any step of its     *)
(* chain (every step is an await of compose or of fetch) while another     *)
(* request arrives or goes on.                                              *)

\* the requests in flight at once
MaxInFlight == 2

\* the middleware of the router: each calls next() at most once
InterleaveKinds == {"pass", "set", "short"}

InterleavePattern == <<"/", ":", "i">>

\* what one invocation of fetch owns: its request, its Context, the index
\* and the pending awaits of its invocation of the composed chain, and what
\* it has done and returned so far
Flight ==
    [pc |-> pc, request |-> request, inbound |-> inbound, ctx |-> ctx, idx |-> idx,
     stack |-> stack, mode |-> mode, val |-> val, trace |-> trace,
     thrown |-> thrown, errCalls |-> errCalls, reply |-> reply,
     lastPath |-> lastPath, result |-> result]

\* router.use(mw), before the server listens
InterleaveUse(mw) ==
    /\ requestId = 0
    /\ use(mw)

\* router.get("/:i", handler), before the server listens
InterleaveRoute(handler) ==
    /\ requestId = 0
    /\ pc = "setup"
    /\ Len(routes["GET"]) < MaxFetchRoutes
    /\ on("GET", InterleavePattern, handler)
    /\ UNCHANGED <<lastPath, result, fetchVars, sideVars, idVars>>

\* the request at hand is suspended (or has been answered) and the server
\* is ready to call fetch for the next one
Park ==
    /\ pc \in {"run", "done"}
    /\ Len(parked) < MaxInFlight - 1
    /\ parked' = Append(parked, Flight)
    /\ pc' = "setup"
    /\ request' = [method |-> "", pathname |-> <<>>]
    /\ inbound' = NoRequestId
    /\ ctx' = NoCtx
    /\ idx' = 0
    /\ stack' = <<>>
    /\ mode' = "idle"
    /\ val' = NoVal
    /\ trace' = <<>>
    /\ thrown' = NoVal
    /\ errCalls' = <<>>
    /\ reply' = NoVal
    /\ lastPath' = NoPath
    /\ result' = NoMatch
    /\ UNCHANGED <<tries, routes, sideVars, middlewares, config, requestId, issued>>

\* the index of the composed chain is one variable of compose, shared by
\* every invocation
SwitchSharedIndex(k) ==
    /\ pc \in {"run", "done"}
    /\ k \in 1..Len(parked)
    /\ parked[k].pc = "run"
    /\ parked' = [parked EXCEPT ![k] = Flight]
    /\ pc' = parked[k].pc
    /\ request' = parked[k].request
    /\ inbound' = parked[k].inbound
    /\ ctx' = parked[k].ctx
    /\ idx' = idx
    /\ stack' = parked[k].stack
    /\ mode' = parked[k].mode
    /\ val' = parked[k].val
    /\ trace' = parked[k].trace
    /\ thrown' = parked[k].thrown
    /\ errCalls' = parked[k].errCalls
    /\ reply' = parked[k].reply
    /\ lastPath' = parked[k].lastPath
    /\ result' = parked[k].result
    /\ UNCHANGED <<tries, routes, sideVars, middlewares, config, requestId, issued>>

\* the request at hand is suspended at an await and the k-th suspended
\* request goes on: each invocation finds its own ctx and its own index i
Switch(k) ==
    /\ pc \in {"run", "done"}
    /\ k \in 1..Len(parked)
    /\ parked[k].pc = "run"
    /\ parked' = [parked EXCEPT ![k] = Flight]
    /\ pc' = parked[k].pc
    /\ request' = parked[k].request
    /\ inbound' = parked[k].inbound
    /\ ctx' = parked[k].ctx
    /\ idx' = parked[k].idx
    /\ stack' = parked[k].stack
    /\ mode' = parked[k].mode
    /\ val' = parked[k].val
    /\ trace' = parked[k].trace
    /\ thrown' = parked[k].thrown
    /\ errCalls' = parked[k].errCalls
    /\ reply' = parked[k].reply
    /\ lastPath' = parked[k].lastPath
    /\ result' = parked[k].result
    /\ UNCHANGED <<tries, routes, sideVars, middlewares, config, requestId, issued>>

InterleaveNext ==
    \/ \E mw \in InterleaveKinds : InterleaveUse(mw)
    \/ InterleaveRoute("ok")
    \/ \E p \in FetchPaths : FetchStart("GET", p)
    \/ DispatchMiddleware
    \/ DispatchHandler
    \/ Return
    \/ Finish
    \/ Park
    \/ \E k \in 1..(MaxInFlight - 1) : Switch(k)

\* createRouter() with the default config
InterleaveInit ==
    /\ FetchInit
    /\ config = [onError |-> "default", onNotFound |-> "default"]

SpecInterleave == InterleaveInit /\ [][InterleaveNext]_vars

\* the requests in flight: the one at hand and the suspended ones
Flights == {Flight} \cup {parked[k] : k \in 1..Len(parked)}

\* the header the "set" middleware this request has entered wrote on ctx
OwnHeaders(f) ==
    IF \E t \in 1..Len(f.trace) :
          f.trace[t].ev = "enter" /\ middlewares[f.trace[t].mw] = "set"
    THEN SetAll(NoHeaders, Header("retry-after", <<"9">>))
    ELSE NoHeaders

\* the middleware this request has entered, in the order of entering
Entered(f) ==
    LET enters == SelectSeq(f.trace, LAMBDA e : e.ev = "enter")
    IN  [t \in 1..Len(enters) |-> enters[t].mw]

\* no middleware of the router ends the chain early
NoneShort == \A k \in 1..n : middlewares[k] # "short"

\* the Context and the chain position of f are what f alone made them
OwnContext(f) ==
    LET match == matchRoute(tries["GET"], f.request.pathname) IN
    /\ f.result = match
    /\ f.ctx.params = match.params
    /\ f.ctx.headers = OwnHeaders(f)
    /\ Entered(f) = [t \in 1..f.idx |-> t]
    /\ (f.pc = "done" /\ NoneShort) =>
          /\ f.trace = ChainFrom(1) \o
                <<[ev |-> IF match.found THEN "handler" ELSE "notfound", mw |-> 0]>>
          /\ f.reply = IF match.found
                       THEN CtxJson(f.ctx, [ok |-> TRUE], 200, NoHeaders)
                       ELSE DefaultNotFound(f.ctx, f.request.pathname)

\* C35: interleaved in-flight requests on one router do not interfere: every
\* request has its own Context (its params and its outgoing headers are what
\* its own match and its own middleware made them, its request id is of no
\* other request) and its own chain index (it enters middleware 1, 2, ... in
\* order and, when none ends the chain early, all of them and then its
\* terminal handler), whatever the interleaving at suspension points.
InterleavedRequestsIsolated ==
    /\ \A f \in Flights : f.pc \in {"run", "done"} => OwnContext(f)
    /\ \A j, k \in 1..Len(parked) :
          j # k => parked[j].ctx.requestId # parked[k].ctx.requestId
    /\ \A k \in 1..Len(parked) :
          pc \in {"run", "done"} => parked[k].ctx.requestId # ctx.requestId

\* two requests with different params are in flight at different positions
\* of a chain of two middleware, and the later one is answered first
OvertakenWitness ==
    /\ n = 2 /\ NoneShort /\ middlewares[1] = "set"
    /\ pc = "done" /\ reply.status = 200
    /\ Len(parked) = 1
    /\ parked[1].pc = "run" /\ parked[1].idx = 1
    /\ parked[1].ctx.requestId = toString36(1)
    /\ parked[1].ctx.params # ctx.params

====
